---- MODULE Spec2Model ----
(***************************************************************************)
(* Strategy 3 (Reflexion + Self-RAG + human in the loop) of                *)
(* self_correction_writing: the refinement graph of                        *)
(* strategy3_reflexion/graph.py with the node functions of                 *)
(* strategy3_reflexion/agents.py, and the ReflectionVectorStore of         *)
(* vector_memory.py.                                                       *)
(*                                                                         *)
(* Numbers.  Scores, similarities, distances and utility scores are floats *)
(* in the code; here they are integers in hundredths (0.92 is 92), so the  *)
(* arithmetic is exact.                                                    *)
(*                                                                         *)
(* Texts.  A text the language model writes is a record [src, k]: src is   *)
(* the critique the prompt carried (or "principle" for a line of a         *)
(* consolidation summary) and k tells paraphrases apart.  The embedding    *)
(* service and the collection's nearest-neighbour query are external; Sim  *)
(* is the cosine similarity they yield.                                    *)
(*                                                                         *)
(* Faults.  A call to the embedding service or to the language model may   *)
(* raise, and so may the construction of the store and the first read of   *)
(* the collection in a maintenance pass; the collection's other get,       *)
(* update and delete calls are taken to succeed.                           *)
(***************************************************************************)
EXTENDS Integers, Sequences, FiniteSets, TLC

VARIABLES
    status,     \* of the run: "running", "paused", "done", "aborted"
    next,       \* snapshot.next: the node the graph will execute next
    resuming,   \* the current stream call is a resume whose first step is pending
    ws,         \* the WritingState
    hist,       \* history of the run (what the last step was and what it used)
    store,      \* the collection: a set of records
    nextId,     \* the next fresh document id (uuid4 in the code)
    m,          \* the maintenance pass in progress (StoreSpec)
    last,       \* the last store operation and its result (StoreSpec)
    ops,        \* number of store operations started (StoreSpec)
    faults,     \* number of calls to an external service that have raised
    instance,   \* ReflectionVectorStore._instance is set
    callers,    \* the threads inside get_instance (SingletonSpec)
    lock,       \* the thread that holds ReflectionVectorStore._lock, or 0
    made,       \* number of stores constructed so far
    procs,      \* the store operations running side by side (RaceSpec)
    saved,      \* the checkpointer: thread_id -> last checkpoint (RunsSpec)
    active,     \* the thread_id of the run whose state is loaded (RunsSpec)
    sup         \* a run of the whitepaper supervisor graph (SupSpec)

vars == <<status, next, resuming, ws, hist, store, nextId, m, last, ops, faults,
          instance, callers, lock, made, procs, saved, active, sup>>
auxVars == <<callers, lock, made, procs, saved, active, sup>>
ctlVars == <<status, next, resuming, ws, hist, faults, instance>>
storeVars == <<store, nextId, m, last, ops>>

---------------------------------------------------------------------------
(* Bounds of the model *)

MaxIterBound == 3
MaxOps == 4
MaxFaults == 1
MaxThreads == 3
MaxPasses == 16

(* Program constants *)

DefaultThreshold == 70
DefaultScore == 50
TopK == 5
SimilarityThreshold == 75
DedupThreshold == 92
BoostAmount == 10
UtilityCap == 200
InitialUtility == 100
DecayRate == 5
PruneThreshold == 30
ConsolidationThreshold == 10
MaxPrinciples == 3

---------------------------------------------------------------------------
(* Small helpers *)

Min(a, b) == IF a <= b THEN a ELSE b
Max(a, b) == IF a >= b THEN a ELSE b

Range(s) == {s[i] : i \in 1..Len(s)}

---------------------------------------------------------------------------
(* Texts and their embeddings *)

EvalCritiques == {"c1"}
HumanCritiques == {"h1"}
PlaceholderCritique == "unparseable"
Critiques == EvalCritiques \cup HumanCritiques \cup {PlaceholderCritique, ""}
Drafts == {"d1", "d2"}

Lesson(src, k) == [src |-> src, k |-> k]
Principle(k) == [src |-> "principle", k |-> k]
LessonTexts == {Lesson(c, k) : c \in Critiques \ {""}, k \in 1..2}
PrincipleTexts == {Principle(k) : k \in 1..4}
Texts == LessonTexts \cup PrincipleTexts

\* Cosine similarity of two texts' embeddings: 1.0 for the same text, 0.95 for
\* two paraphrases of one lesson, 0.80 for two different lessons.
Sim(t, u) ==
    IF t = u THEN 100
    ELSE IF t.src = u.src /\ t.src # "principle" THEN 95
    ELSE IF t.src # "principle" /\ u.src # "principle" THEN 80
    ELSE 40

\* Cosine similarity of a text to the run's query "<topic> <criteria>".
QuerySim(t) ==
    IF t.src = "principle" THEN 90 - t.k
    ELSE IF t.k = 1 THEN 80 ELSE 60

NoText == [src |-> "", k |-> 0]

Scopes == {"A", "B"}
RunScope == "A"

\* n more calls raise in this step; the model follows at most MaxFaults of them.
Fault(n) ==
    /\ faults + n <= MaxFaults
    /\ faults' = faults + n

\* No thread is inside get_instance, no store operations run side by side,
\* one run is being driven, and no whitepaper run is under way.
AuxIdle ==
    /\ callers = <<>>
    /\ lock = 0
    /\ made = 0
    /\ procs = <<>>
    /\ saved = <<>>
    /\ active = 0
    /\ sup = <<>>

---------------------------------------------------------------------------
(* ReflectionVectorStore: the operations as functions of the collection *)

\* A record: [id, text, scope, utility, consolidated].  scope stands for the
\* metadata pair (task_type, criteria_hash).
\* Variant: no where clause, every record of the collection.
InScope_any(st, scope) == st

InScope(st, scope) == {r \in st : r.scope = scope}
Ids(st) == {r.id : r \in st}

Stored(id) == [kind |-> "stored", id |-> id]
Skipped == [kind |-> "skipped", id |-> 0]
Raised == [kind |-> "raised", id |-> 0]

\* Variant: the farthest record instead of the nearest.
NearestSim_farthest(st, text, scope) ==
    LET S == InScope(st, scope)
    IN  CHOOSE v \in {Sim(text, r.text) : r \in S} :
            \A r \in S : Sim(text, r.text) >= v

\* collection.query(n_results=1, where=scope): the similarity of the nearest record.
NearestSim(st, text, scope) ==
    LET S == InScope(st, scope)
    IN  CHOOSE v \in {Sim(text, r.text) : r \in S} :
            \A r \in S : Sim(text, r.text) <= v

\* Variant: a record of the same text in the scope is replaced.
add_reflection_upsert(st, nid, text, scope, utility, consolidated) ==
    [store |-> {r \in st : ~(r.scope = scope /\ r.text = text)}
               \cup {[id |-> nid, text |-> text, scope |-> scope,
                      utility |-> utility, consolidated |-> consolidated]},
     nextId |-> nid + 1,
     ret |-> Stored(nid)]

add_reflection(st, nid, text, scope, utility, consolidated) ==
    [store |-> st \cup {[id |-> nid, text |-> text, scope |-> scope,
                         utility |-> utility, consolidated |-> consolidated]},
     nextId |-> nid + 1,
     ret |-> Stored(nid)]

\* Variant: the similarity must exceed the threshold.
add_reflection_with_dedup_strict(st, nid, text, scope, dedup_threshold, fail) ==
    IF fail = 1 THEN [store |-> st, nextId |-> nid, ret |-> Raised]
    ELSE IF InScope(st, scope) # {}
            /\ NearestSim(st, text, scope) > dedup_threshold
         THEN [store |-> st, nextId |-> nid, ret |-> Skipped]
    ELSE IF fail = 2 THEN [store |-> st, nextId |-> nid, ret |-> Raised]
    ELSE add_reflection(st, nid, text, scope, InitialUtility, FALSE)

\* fail: which of the call's embed_query calls raises (0: none; 1: the one of the
\* dedup check; 2: the one of add_reflection).
add_reflection_with_dedup(st, nid, text, scope, dedup_threshold, fail) ==
    IF fail = 1 THEN [store |-> st, nextId |-> nid, ret |-> Raised]
    ELSE IF InScope(st, scope) # {}
            /\ NearestSim(st, text, scope) >= dedup_threshold
         THEN [store |-> st, nextId |-> nid, ret |-> Skipped]
    ELSE IF fail = 2 THEN [store |-> st, nextId |-> nid, ret |-> Raised]
    ELSE add_reflection(st, nid, text, scope, InitialUtility, FALSE)

\* Variant: no cap.
boost_utility_uncapped(st, doc_ids, boost) ==
    {IF r.id \in doc_ids
        THEN [r EXCEPT !.utility = r.utility + boost]
        ELSE r : r \in st}

boost_utility(st, doc_ids, boost) ==
    {IF r.id \in doc_ids
        THEN [r EXCEPT !.utility = Min(r.utility + boost, UtilityCap)]
        ELSE r : r \in st}

\* Variant: a record exactly at the floor is pruned too.
decay_and_prune_le(st, scope, decay_rate, prune_threshold) ==
    LET docs == InScope(st, scope)
        keep == {r \in docs : ~(r.utility - decay_rate <= prune_threshold)}
    IN  (st \ docs) \cup {[r EXCEPT !.utility = r.utility - decay_rate] : r \in keep}

decay_and_prune(st, scope, decay_rate, prune_threshold) ==
    LET docs == InScope(st, scope)
        keep == {r \in docs : ~(r.utility - decay_rate < prune_threshold)}
    IN  (st \ docs) \cup {[r EXCEPT !.utility = r.utility - decay_rate] : r \in keep}

\* collection.query(n_results=top_k, where=scope): nearest first.
Nearer(r, q) ==
    \/ QuerySim(r.text) > QuerySim(q.text)
    \/ QuerySim(r.text) = QuerySim(q.text) /\ r.id <= q.id

RECURSIVE NearestFirst(_, _)
NearestFirst(S, n) ==
    IF S = {} \/ n = 0 THEN <<>>
    ELSE LET r == CHOOSE x \in S : \A y \in S : Nearer(x, y)
         IN  <<r>> \o NearestFirst(S \ {r}, n - 1)

\* Variant: a record exactly at the threshold is dropped.
retrieve_reflections_strict(st, scope, top_k, similarity_threshold) ==
    LET results == NearestFirst(InScope(st, scope), top_k)
        max_distance == 100 - similarity_threshold
    IN  SelectSeq(results, LAMBDA r : 100 - QuerySim(r.text) < max_distance)

retrieve_reflections(st, scope, top_k, similarity_threshold) ==
    LET results == NearestFirst(InScope(st, scope), top_k)
        max_distance == 100 - similarity_threshold
    IN  SelectSeq(results, LAMBDA r : 100 - QuerySim(r.text) <= max_distance)

---------------------------------------------------------------------------
(* _consolidate, one collection call at a time *)

\* A line of the summarization's reply: a bullet ("- x", "* x"), a numbered
\* line ("1. x") or anything else.
Line(mark, text) == [mark |-> mark, text |-> text]

\* Variant: every parsed line is kept.
parse_principles_all(lines) ==
    LET found == SelectSeq(lines, LAMBDA l : l.mark \in {"bullet", "numbered"})
    IN  [i \in 1..Len(found) |-> found[i].text]

parse_principles(lines) ==
    LET found == SelectSeq(lines, LAMBDA l : l.mark \in {"bullet", "numbered"})
    IN  [i \in 1..Min(Len(found), MaxPrinciples) |-> found[i].text]

SummaryReplies ==
    { [kind |-> "raise", lines |-> <<>>],
      [kind |-> "ok", lines |-> <<>>],
      [kind |-> "ok", lines |-> <<Line("junk", Principle(1))>>],
      [kind |-> "ok", lines |-> <<Line("bullet", Principle(1))>>],
      [kind |-> "ok", lines |-> <<Line("bullet", Principle(1)),
                                  Line("numbered", Principle(2))>>],
      [kind |-> "ok", lines |-> <<Line("bullet", Principle(1)),
                                  Line("junk", Principle(2)),
                                  Line("numbered", Principle(2)),
                                  Line("bullet", Principle(3)),
                                  Line("bullet", Principle(4))>>] }

IdleM ==
    [pc |-> "idle", scope |-> RunScope, max_count |-> 0, all_ids |-> {},
     principles |-> <<>>, new_ids |-> <<>>, failAt |-> 0, result |-> "none",
     pre |-> {}, snap |-> {}]

\* Variant: the originals are deleted before the principles are looked at.
consolidate_begin_eager(x, scope, max_count, reply, failAt) ==
    LET all_ids == Ids(InScope(x.store, scope))
        base == [IdleM EXCEPT !.scope = scope, !.max_count = max_count,
                              !.all_ids = all_ids, !.pre = x.m.pre,
                              !.snap = x.store]
        principles == parse_principles(reply.lines)
        gone == {r \in x.store : r.id \notin all_ids}
    IN  IF ~(Cardinality(all_ids) > max_count)
            THEN [x EXCEPT !.m = [base EXCEPT !.result = "not_needed"]]
        ELSE IF reply.kind = "raise"
            THEN [x EXCEPT !.m = [base EXCEPT !.result = "raised"]]
        ELSE IF principles = <<>>
            THEN [x EXCEPT !.store = gone,
                           !.m = [base EXCEPT !.result = "no_principles"]]
        ELSE [x EXCEPT !.m = [base EXCEPT !.pc = "write",
                                          !.principles = principles,
                                          !.failAt = failAt]]

\* Lines 206-229 and 232-239: read the scope, give up when it is small enough,
\* ask for the summary, parse it.  failAt: which add_reflection of the loop
\* raises (0: none).
consolidate_begin(x, scope, max_count, reply, failAt) ==
    LET all_ids == Ids(InScope(x.store, scope))
        base == [IdleM EXCEPT !.scope = scope, !.max_count = max_count,
                              !.all_ids = all_ids, !.pre = x.m.pre,
                              !.snap = x.store]
        principles == parse_principles(reply.lines)
    IN  IF ~(Cardinality(all_ids) > max_count)
            THEN [x EXCEPT !.m = [base EXCEPT !.result = "not_needed"]]
        ELSE IF reply.kind = "raise"
            THEN [x EXCEPT !.m = [base EXCEPT !.result = "raised"]]
        ELSE IF principles = <<>>
            THEN [x EXCEPT !.m = [base EXCEPT !.result = "no_principles"]]
        ELSE [x EXCEPT !.m = [base EXCEPT !.pc = "write",
                                          !.principles = principles,
                                          !.failAt = failAt]]

\* Lines 240-247: one turn of the loop that writes the principles.
consolidate_write(x) ==
    LET i == Len(x.m.new_ids) + 1
        w == add_reflection(x.store, x.nextId, x.m.principles[i], x.m.scope,
                            InitialUtility, TRUE)
    IN  IF i = x.m.failAt
            THEN [x EXCEPT !.m.pc = "rollback"]
        ELSE [store |-> w.store, nextId |-> w.nextId,
              m |-> [x.m EXCEPT !.new_ids = Append(@, w.ret.id),
                                !.pc = IF i = Len(x.m.principles)
                                          THEN "delete_old" ELSE "write"]]

\* Variant: the written principles are left behind.
consolidate_rollback_keep(x) ==
    [x EXCEPT !.m.pc = "idle", !.m.result = "rolled_back"]

\* Lines 243-247: the except branch.
consolidate_rollback(x) ==
    [x EXCEPT !.store = {r \in x.store : r.id \notin Range(x.m.new_ids)},
              !.m.pc = "idle", !.m.result = "rolled_back"]

\* Variant: everything in the scope but the new principles is deleted.
consolidate_delete_old_scope(x) ==
    [x EXCEPT !.store = {r \in x.store : r.scope # x.m.scope
                                          \/ r.id \in Range(x.m.new_ids)},
              !.m.pc = "idle", !.m.result = "consolidated"]

\* Variant: the originals are left in place.
consolidate_delete_old_none(x) ==
    [x EXCEPT !.m.pc = "idle", !.m.result = "consolidated"]

\* Line 249: delete the originals.
consolidate_delete_old(x) ==
    [x EXCEPT !.store = {r \in x.store : r.id \notin x.m.all_ids},
              !.m.pc = "idle", !.m.result = "consolidated"]

consolidate_step(x) ==
    CASE x.m.pc = "write" -> consolidate_write(x)
      [] x.m.pc = "rollback" -> consolidate_rollback(x)
      [] x.m.pc = "delete_old" -> consolidate_delete_old(x)
      [] OTHER -> x

RECURSIVE consolidate_finish(_)
consolidate_finish(x) ==
    IF x.m.pc = "idle" THEN x ELSE consolidate_finish(consolidate_step(x))

consolidate(x, scope, max_count, reply, failAt) ==
    consolidate_finish(consolidate_begin(x, scope, max_count, reply, failAt))

\* Variant: the pass consolidates without decaying.
run_maintenance_no_decay(x, scope, decay_rate, prune_threshold, consolidation_threshold, reply, failAt) ==
    consolidate([x EXCEPT !.m.pre = x.store], scope, consolidation_threshold,
                reply, failAt)

\* run_maintenance: _decay_and_prune, then _consolidate.
run_maintenance(x, scope, decay_rate, prune_threshold, consolidation_threshold, reply, failAt) ==
    consolidate(
        [x EXCEPT !.store = decay_and_prune(x.store, scope, decay_rate,
                                            prune_threshold),
                  !.m.pre = x.store],
        scope, consolidation_threshold, reply, failAt)


---------------------------------------------------------------------------
(* The store on its own: callers invoking its operations one after another *)

StoreTexts == {Lesson("c1", 1), Lesson("c1", 2), Lesson("h1", 1)}
\* The writes callers make: every text into the run's scope, one into another.
StoreWrites ==
    {<<t, RunScope>> : t \in StoreTexts} \cup {<<Lesson("c1", 1), "B">>}
DedupThresholds == {DedupThreshold, 100}
BoostAmounts == {BoostAmount, 2, 100}
PruneThresholds == {PruneThreshold, 95, 96}
ConsolidationThresholds == {0, 1}

\* The last operation: its arguments, what it returned and the collection it
\* started from.
NoPrev == [op |-> "none", text |-> NoText, scope |-> RunScope, arg |-> 0,
           kind |-> "none"]

NoOp ==
    [op |-> "none", text |-> NoText, scope |-> RunScope, arg |-> 0, arg2 |-> 0,
     ids |-> {}, ret |-> Skipped, found |-> <<>>, before |-> {},
     prev |-> NoPrev]

\* The operation before the one that is recorded now.
Prev ==
    [op |-> last.op, text |-> last.text, scope |-> last.scope, arg |-> last.arg,
     kind |-> last.ret.kind]

StoreIdle == m.pc = "idle" /\ ops < MaxOps

S_add_reflection_with_dedup(text, scope, dedup_threshold, fail) ==
    LET w == add_reflection_with_dedup(store, nextId, text, scope,
                                       dedup_threshold, fail)
    IN  /\ StoreIdle
        /\ fail # 0 => w.ret = Raised
        /\ Fault(IF fail # 0 THEN 1 ELSE 0)
        /\ store' = w.store
        /\ nextId' = w.nextId
        /\ last' = [NoOp EXCEPT !.op = "add_reflection_with_dedup", !.text = text,
                                !.scope = scope, !.arg = dedup_threshold,
                                !.ret = w.ret, !.before = store,
                                !.prev = Prev]
        /\ ops' = ops + 1
        /\ UNCHANGED <<m, status, next, resuming, ws, hist, instance, auxVars>>

S_boost_utility(doc_ids, boost) ==
    /\ StoreIdle
    /\ store' = boost_utility(store, doc_ids, boost)
    /\ last' = [NoOp EXCEPT !.op = "boost_utility", !.ids = doc_ids, !.arg = boost,
                            !.before = store, !.prev = Prev]
    /\ ops' = ops + 1
    /\ UNCHANGED <<nextId, m, status, next, resuming, ws, hist, faults,
                   instance, auxVars>>

\* run_maintenance, first half: _decay_and_prune.
S_decay_and_prune(scope, decay_rate, prune_threshold, consolidation_threshold) ==
    /\ StoreIdle
    /\ store' = decay_and_prune(store, scope, decay_rate, prune_threshold)
    /\ m' = [IdleM EXCEPT !.pc = "consolidate", !.scope = scope,
                          !.max_count = consolidation_threshold,
                          !.pre = store]
    /\ last' = [NoOp EXCEPT !.op = "decay_and_prune", !.scope = scope,
                            !.arg = decay_rate, !.arg2 = prune_threshold,
                            !.before = store, !.prev = Prev]
    /\ ops' = ops + 1
    /\ UNCHANGED <<nextId, status, next, resuming, ws, hist, faults,
                   instance, auxVars>>

Machine == [store |-> store, nextId |-> nextId, m |-> m]

Becomes(x) ==
    /\ store' = x.store
    /\ nextId' = x.nextId
    /\ m' = x.m
    /\ last' = [NoOp EXCEPT !.op = "consolidate", !.scope = x.m.scope,
                            !.before = x.m.snap]
    /\ UNCHANGED <<ops, status, next, resuming, ws, hist, instance, auxVars>>

\* run_maintenance, second half: _consolidate, up to the parsed principles.
S_consolidate_begin(reply, failAt) ==
    LET x == consolidate_begin(Machine, m.scope, m.max_count, reply, failAt)
    IN  /\ m.pc = "consolidate"
        /\ reply.kind = "raise" => x.m.result = "raised"
        /\ failAt # 0 => x.m.pc = "write" /\ failAt <= Len(x.m.principles)
        /\ Fault((IF reply.kind = "raise" THEN 1 ELSE 0)
                 + (IF failAt # 0 THEN 1 ELSE 0))
        /\ Becomes(x)

S_consolidate_write ==
    /\ m.pc = "write"
    /\ Becomes(consolidate_write(Machine))
    /\ UNCHANGED faults

S_consolidate_rollback ==
    /\ m.pc = "rollback"
    /\ Becomes(consolidate_rollback(Machine))
    /\ UNCHANGED faults

S_consolidate_delete_old ==
    /\ m.pc = "delete_old"
    /\ Becomes(consolidate_delete_old(Machine))
    /\ UNCHANGED faults

---------------------------------------------------------------------------
(* The refinement graph: strategy3_reflexion *)

Nodes == {"retrieve_memory", "grade_relevance", "generate", "evaluator",
          "reflector", "finalize"}

\* Variant: no interrupt before finalize.
interrupt_before_reflector_only == {"reflector"}

interrupt_before == {"reflector", "finalize"}

Thresholds == {DefaultThreshold}
RawScores == {-20, DefaultThreshold, 150}
LessonVariants == {1}

\* Variant: the score must exceed the threshold.
should_retry_or_finish_strict(s) ==
    IF s.score > s.score_threshold \/ s.iteration >= s.max_iterations
        THEN "finalize"
        ELSE "reflector"

\* Variant: the budget must be exceeded.
should_retry_or_finish_late(s) ==
    IF s.score >= s.score_threshold \/ s.iteration > s.max_iterations
        THEN "finalize"
        ELSE "reflector"

should_retry_or_finish(s) ==
    IF s.score >= s.score_threshold \/ s.iteration >= s.max_iterations
        THEN "finalize"
        ELSE "reflector"

\* Variant: retrieve_memory is wired to generate, past grade_relevance.
route_past_grading(n, s) ==
    CASE n = "START" -> "retrieve_memory"
      [] n = "retrieve_memory" -> "generate"
      [] n = "grade_relevance" -> "generate"
      [] n = "generate" -> "evaluator"
      [] n = "evaluator" -> should_retry_or_finish(s)
      [] n = "reflector" -> "retrieve_memory"
      [] n = "finalize" -> "END"

\* The edges of build_graph_strategy3: the node that follows n in state s.
route(n, s) ==
    CASE n = "START" -> "retrieve_memory"
      [] n = "retrieve_memory" -> "grade_relevance"
      [] n = "grade_relevance" -> "generate"
      [] n = "generate" -> "evaluator"
      [] n = "evaluator" -> should_retry_or_finish(s)
      [] n = "reflector" -> "retrieve_memory"
      [] n = "finalize" -> "END"

\* A node may execute: it is the pending one, and a node of interrupt_before
\* only as the first step of a resume.
CanRun(n) ==
    /\ status = "running"
    /\ next = n
    /\ (n \in interrupt_before => resuming)

\* What every executed node does to the graph's bookkeeping.
Ran(n, s) ==
    /\ ws' = s
    /\ next' = route(n, s)
    /\ status' = IF route(n, s) = "END" THEN "done" ELSE "running"
    /\ resuming' = FALSE

InitialState(max_iterations, score_threshold) ==
    [current_draft |-> "", revision_history |-> <<>>, reflections |-> <<>>,
     iteration |-> 0, max_iterations |-> max_iterations, score |-> 0,
     score_threshold |-> score_threshold, critique |-> "", final_output |-> "",
     retrieved_memories |-> <<>>, graded_memories |-> <<>>]

\* What the last step was and what it used; a round's notes are dropped when
\* the next round starts.  calls: the model invocations and the store
\* operations (retrieve_reflections, boost_utility, add_reflection_with_dedup,
\* run_maintenance) the last node made; boosted: the texts of the records
\* retrieve_memory boosted in this round, kept until generate.
InitialHist ==
    [event |-> "start", lastNode |-> "START", pending |-> "none",
     evalCritique |-> "", overridden |-> FALSE, humanCritique |-> "",
     lesson |-> NoText, lessonOverridden |-> FALSE, metaScore |-> 0,
     write |-> "none", maint |-> "none", retrieval |-> "none",
     calls |-> <<0, 0>>, boosted |-> {},
     grading |-> [kind |-> "none", verdicts |-> <<>>],
     evalReply |-> [kind |-> "none", numeric |-> FALSE]]

\* list(dict.fromkeys(xs)): first occurrences, in order.
RECURSIVE dedup_keep_order(_)
dedup_keep_order(xs) ==
    IF xs = <<>> THEN <<>>
    ELSE LET front == dedup_keep_order(SubSeq(xs, 1, Len(xs) - 1))
             x == xs[Len(xs)]
         IN  IF x \in Range(front) THEN front ELSE Append(front, x)

\* Variant: the session's reflections are left out of the merge.
merge_memories_store_only(reflections, retrieved_texts) ==
    dedup_keep_order(retrieved_texts)

\* Lines 48-49: the session's reflections, then the retrieved texts, without
\* repetitions.
\* Variant: the two lists are joined as they are.
merge_memories_joined(reflections, retrieved_texts) ==
    reflections \o retrieved_texts

merge_memories(reflections, retrieved_texts) ==
    dedup_keep_order(reflections \o retrieved_texts)

\* A lesson an earlier run left in the run's scope.
PriorLesson == Lesson("prior", 1)
\* The utility_score earlier maintenance passes have left it: one decay above
\* the prune floor.
PriorUtility == PruneThreshold + DecayRate
PriorStores ==
    { {},
      {[id |-> 1, text |-> PriorLesson, scope |-> RunScope,
        utility |-> PriorUtility, consolidated |-> FALSE]} }

\* fail: "none", "construct" (get_instance raises while it builds the
\* store), "search" (retrieve_reflections raises) or "boost" (boost_utility
\* raises).
retrieve_memory(fail) ==
    LET found == IF fail \in {"construct", "search"} THEN <<>>
                 ELSE retrieve_reflections(store, RunScope, TopK, SimilarityThreshold)
        retrieved_texts == [i \in 1..Len(found) |-> found[i].text]
        all_texts == merge_memories(ws.reflections, retrieved_texts)
    IN  /\ CanRun("retrieve_memory")
        /\ fail = "boost" => found # <<>>
        /\ fail = "construct" => ~instance
        /\ instance' = (fail # "construct")
        /\ Fault(IF fail = "none" THEN 0 ELSE 1)
        /\ store' = IF fail = "none" /\ found # <<>>
                       THEN boost_utility(store, {found[i].id : i \in 1..Len(found)},
                                          BoostAmount)
                       ELSE store
        /\ Ran("retrieve_memory", [ws EXCEPT !.retrieved_memories = all_texts])
        /\ hist' = [InitialHist EXCEPT !.event = "node",
                                       !.lastNode = "retrieve_memory",
                                       !.retrieval = fail,
                                       !.calls =
                                           <<0, IF fail = "construct" THEN 0
                                                ELSE IF found = <<>> THEN 1
                                                ELSE 2>>,
                                       !.boosted =
                                           IF fail = "none"
                                              THEN Range(retrieved_texts)
                                              ELSE {}]
        /\ UNCHANGED <<nextId, m, last, ops, auxVars>>

\* The grader's reply: a JSON list of verdicts, or text that is no JSON list.
VerdictReplies(n) ==
    { [kind |-> "list", verdicts |-> [i \in 1..n |-> "YES"]],
      [kind |-> "list", verdicts |-> [i \in 1..n |-> "NO"]],
      [kind |-> "list", verdicts |-> [i \in 1..n |-> IF i % 2 = 1 THEN "yes " ELSE "NO"]],
      [kind |-> "list", verdicts |-> [i \in 1..(n + 1) |-> "YES"]],
      [kind |-> "list", verdicts |-> [i \in 1..(n - 1) |-> "NO"]],
      [kind |-> "unparseable", verdicts |-> <<>>] }

\* str(v).strip().upper() == "YES"
IsYes(v) == v \in {"YES", "yes", "yes ", "Yes"}

RECURSIVE KeepYes(_, _)
KeepYes(memories, verdicts) ==
    IF memories = <<>> THEN <<>>
    ELSE LET rest == KeepYes(Tail(memories), Tail(verdicts))
         IN  IF IsYes(Head(verdicts)) THEN <<Head(memories)>> \o rest ELSE rest

\* Variant: a reply of the wrong shape drops every memory.
graded_of_drop(memories, reply) ==
    LET verdicts == IF reply.kind = "list" THEN reply.verdicts ELSE <<>>
    IN  IF Len(verdicts) # Len(memories) THEN <<>>
        ELSE KeepYes(memories, verdicts)

\* Lines 87-112: parse the reply, keep everything when it is no list of the
\* right length, else keep the memories judged YES.
graded_of(memories, reply) ==
    LET verdicts == IF reply.kind = "list" THEN reply.verdicts ELSE <<>>
    IN  IF Len(verdicts) # Len(memories) THEN memories
        ELSE KeepYes(memories, verdicts)

grade_relevance ==
    /\ CanRun("grade_relevance")
    /\ \E reply \in VerdictReplies(Len(ws.retrieved_memories)) :
          /\ Ran("grade_relevance",
                 [ws EXCEPT !.graded_memories =
                     IF ws.retrieved_memories = <<>> THEN <<>>
                     ELSE graded_of(ws.retrieved_memories, reply)])
          /\ hist' = [hist EXCEPT !.event = "node", !.lastNode = "grade_relevance",
                                  !.retrieval = "none", !.grading = reply,
                                  !.calls =
                                      <<IF ws.retrieved_memories = <<>>
                                           THEN 0 ELSE 1, 0>>]
    /\ UNCHANGED <<storeVars, faults, instance, auxVars>>

\* Variant: revision_history has no reducer, the returned list replaces it.
generate_update_overwrite(s, draft) ==
    [s EXCEPT !.current_draft = draft, !.revision_history = <<draft>>]

\* Lines 142-145 with the operator.add reducer of revision_history.
generate_update(s, draft) ==
    [s EXCEPT !.current_draft = draft, !.revision_history = Append(@, draft)]

generate(draft) ==
    /\ CanRun("generate")
    /\ Ran("generate", generate_update(ws, draft))
    /\ hist' = [hist EXCEPT !.event = "node", !.lastNode = "generate",
                            !.grading = InitialHist.grading,
                            !.calls = <<1, 0>>, !.boosted = {}]
    /\ UNCHANGED <<storeVars, faults, instance, auxVars>>

\* The evaluator's reply: JSON with a numeric score, JSON whose score is no
\* number, or text that is no JSON.
EvalReplies ==
    {[kind |-> "json", numeric |-> TRUE, score |-> v, critique |-> c] :
        v \in RawScores, c \in EvalCritiques}
    \cup {[kind |-> "json", numeric |-> FALSE, score |-> 0, critique |-> c] :
        c \in EvalCritiques}
    \cup {[kind |-> "unparseable", numeric |-> FALSE, score |-> 0, critique |-> ""]}

parse_json(raw, default) ==
    IF raw.kind = "unparseable" THEN default ELSE raw

\* Variant: the score as the reply gave it.
evaluator_score_unclamped(parsed) == parsed.score

\* Line 174, for a score float() accepts: max(0.0, min(1.0, score)).
evaluator_score(parsed) == Max(0, Min(100, parsed.score))

evaluator(raw) ==
    LET parsed == parse_json(raw, [kind |-> "json", numeric |-> TRUE,
                                   score |-> DefaultScore,
                                   critique |-> PlaceholderCritique])
        score == evaluator_score(parsed)
    IN  /\ CanRun("evaluator")
        /\ IF parsed.numeric
              THEN /\ Ran("evaluator", [ws EXCEPT !.score = score,
                                                  !.critique = parsed.critique])
                   /\ hist' = [hist EXCEPT !.event = "node", !.lastNode = "evaluator",
                                           !.evalCritique = parsed.critique,
                                           !.overridden = FALSE,
                                           !.calls = <<1, 0>>,
                                           !.evalReply = [kind |-> raw.kind,
                                                          numeric |-> raw.numeric]]
              ELSE \* float(...) raises: the stream call ends with the exception
                   /\ status' = "aborted"
                   /\ hist' = [hist EXCEPT !.event = "abort",
                                           !.calls = <<1, 0>>,
                                           !.evalReply = [kind |-> raw.kind,
                                                          numeric |-> raw.numeric]]
                   /\ UNCHANGED <<next, resuming, ws>>
        /\ UNCHANGED <<storeVars, faults, instance, auxVars>>

\* Variant: the critique as the evaluator returned it.
reflector_critique_of_evaluator(s) == hist.evalCritique

\* state.get("critique", "")
reflector_critique(s) == s.critique

\* Variant: the lesson is appended but the round is not counted.
reflector_update_no_count(s, reflection, raised) ==
    [s EXCEPT !.reflections = Append(@, reflection)]

\* Variant: the update is returned from inside the try block.
reflector_update_in_try(s, reflection, raised) ==
    IF raised THEN s
    ELSE [s EXCEPT !.reflections = Append(@, reflection), !.iteration = @ + 1]

\* Line 229: the score the lesson's metadata carries.
reflector_metadata_score(s) == s.score

\* Lines 240-243: the update reflector returns, whether or not the store
\* calls raised.
reflector_update(s, reflection, raised) ==
    [s EXCEPT !.reflections = Append(@, reflection), !.iteration = @ + 1]

\* k: the paraphrase the model writes; fail, reply, failAt: as in
\* add_reflection_with_dedup and run_maintenance; fail = 3: get_instance
\* (line 219, before the try) raises while it builds the store; fail = 4:
\* run_maintenance raises at its first read of the collection.
reflector(k, fail, reply, failAt) ==
    LET reflection == Lesson(reflector_critique(ws), k)
        w == add_reflection_with_dedup(store, nextId, reflection, RunScope,
                                       DedupThreshold,
                                       IF fail \in {1, 2} THEN fail ELSE 0)
        x == IF w.ret = Raised
                THEN [store |-> w.store, nextId |-> w.nextId, m |-> IdleM]
             ELSE IF fail = 4
                THEN [store |-> w.store, nextId |-> w.nextId,
                      m |-> [IdleM EXCEPT !.result = "raised"]]
                ELSE run_maintenance([store |-> w.store, nextId |-> w.nextId,
                                      m |-> IdleM],
                                     RunScope, DecayRate, PruneThreshold,
                                     ConsolidationThreshold, reply, failAt)
        \* _consolidate asked the model for principles
        summarized == \/ x.m.result \in {"consolidated", "no_principles",
                                          "rolled_back"}
                      \/ x.m.result = "raised" /\ reply.kind = "raise"
    IN  /\ CanRun("reflector")
        /\ IF fail = 3
              THEN \* the stream call ends with the exception
                   /\ ~instance
                   /\ reply.kind = "ok" /\ reply.lines = <<>> /\ failAt = 0
                   /\ status' = "aborted"
                   /\ hist' = [hist EXCEPT !.event = "abort", !.calls = <<1, 0>>]
                   /\ UNCHANGED <<next, resuming, ws, store, nextId, faults, instance>>
              ELSE /\ fail \in {1, 2} => w.ret = Raised
                   /\ fail = 4 => reply.kind = "ok" /\ reply.lines = <<>> /\ failAt = 0
                   /\ reply.kind = "raise" => x.m.result = "raised"
                   /\ failAt # 0 => x.m.result = "rolled_back"
                   /\ Fault((IF fail # 0 THEN 1 ELSE 0)
                            + (IF reply.kind = "raise" THEN 1 ELSE 0)
                            + (IF failAt # 0 THEN 1 ELSE 0))
                   /\ store' = x.store
                   /\ nextId' = x.nextId
                   /\ instance' = TRUE
                   /\ Ran("reflector",
                          reflector_update(ws, reflection,
                                           w.ret = Raised \/ x.m.result = "raised"))
                   /\ hist' = [hist EXCEPT !.event = "node", !.lastNode = "reflector",
                                           !.pending = "none",
                                           !.lesson = reflection,
                                           !.lessonOverridden = hist.overridden,
                                           !.metaScore =
                                               reflector_metadata_score(ws),
                                           !.write = w.ret.kind,
                                           !.maint = x.m.result,
                                           !.calls =
                                               <<1 + (IF summarized THEN 1 ELSE 0),
                                                 IF w.ret = Raised THEN 1 ELSE 2>>]
        /\ UNCHANGED <<m, last, ops, auxVars>>

\* Variant: the first draft is copied, not the current one.
finalize_update_first(s) ==
    [s EXCEPT !.final_output = s.revision_history[1]]

\* Line 250.
finalize_update(s) == [s EXCEPT !.final_output = s.current_draft]

finalize ==
    /\ CanRun("finalize")
    /\ Ran("finalize", finalize_update(ws))
    /\ hist' = [hist EXCEPT !.event = "node", !.lastNode = "finalize",
                            !.pending = "none", !.calls = <<0, 0>>]
    /\ UNCHANGED <<storeVars, faults, instance, auxVars>>

\* interrupt_before: the stream call ends before the pending node.
Interrupt ==
    /\ status = "running"
    /\ next \in interrupt_before
    /\ ~resuming
    /\ status' = "paused"
    /\ hist' = [hist EXCEPT !.event = "pause", !.pending = next]
    /\ UNCHANGED <<next, resuming, ws>>
    /\ UNCHANGED <<storeVars, faults, instance, auxVars>>

\* graph.stream(None, config) while snapshot.next is not empty.
Resume ==
    /\ status = "paused"
    /\ status' = "running"
    /\ resuming' = TRUE
    /\ hist' = [hist EXCEPT !.event = "resume"]
    /\ UNCHANGED <<next, ws>>
    /\ UNCHANGED <<storeVars, faults, instance, auxVars>>

\* Variant: the update is applied as the node about to run, as_node="reflector".
Override_as_reflector(c) ==
    /\ status = "paused"
    /\ ws' = [ws EXCEPT !.critique = c]
    /\ next' = IF next = "reflector" THEN route("reflector", ws')
               ELSE route("evaluator", ws')
    /\ hist' = [hist EXCEPT !.event = "override", !.overridden = TRUE,
                            !.humanCritique = c]
    /\ UNCHANGED <<status, resuming>>
    /\ UNCHANGED <<storeVars, faults, instance, auxVars>>

\* graph.update_state(config, {"critique": c}, as_node="evaluator")
Override(c) ==
    /\ status = "paused"
    /\ ws' = [ws EXCEPT !.critique = c]
    /\ next' = route("evaluator", ws')
    /\ hist' = [hist EXCEPT !.event = "override", !.overridden = TRUE,
                            !.humanCritique = c]
    /\ UNCHANGED <<status, resuming>>
    /\ UNCHANGED <<storeVars, faults, instance, auxVars>>

Init ==
    /\ status = "running"
    /\ next = route("START", <<>>)
    /\ resuming = FALSE
    /\ \E mi \in 0..MaxIterBound, th \in Thresholds : ws = InitialState(mi, th)
    /\ hist = InitialHist
    /\ store \in PriorStores
    /\ nextId = Cardinality(store) + 1
    /\ m = IdleM
    /\ last = NoOp
    /\ ops = 0
    /\ faults = 0
    /\ instance = FALSE
    /\ AuxIdle

\* The model's drafts: a new draft differs from the one before it.  Drafts are
\* opaque to the program, so the first one is called "d1".
NextDrafts ==
    IF ws.current_draft = "" THEN {"d1"} ELSE Drafts \ {ws.current_draft}

Next ==
    \/ \E fail \in {"none", "construct", "search", "boost"} : retrieve_memory(fail)
    \/ grade_relevance
    \/ \E draft \in NextDrafts : generate(draft)
    \/ \E raw \in EvalReplies : evaluator(raw)
    \/ \E k \in LessonVariants, fail \in 0..4, reply \in SummaryReplies,
          failAt \in 0..MaxPrinciples : reflector(k, fail, reply, failAt)
    \/ finalize
    \/ Interrupt
    \/ Resume
    \/ \E c \in HumanCritiques : Override(c)

Spec == Init /\ [][Next]_vars

StoreInit ==
    /\ status = "running"
    /\ next = route("START", <<>>)
    /\ resuming = FALSE
    /\ ws = InitialState(0, DefaultThreshold)
    /\ hist = InitialHist
    /\ store = {}
    /\ nextId = 1
    /\ m = IdleM
    /\ last = NoOp
    /\ ops = 0
    /\ faults = 0
    /\ instance = TRUE
    /\ AuxIdle

StoreNext ==
    \/ \E w \in StoreWrites, thr \in DedupThresholds, fail \in 0..2 :
          S_add_reflection_with_dedup(w[1], w[2], thr, fail)
    \/ \E doc_ids \in {{i} : i \in Ids(store)} \cup {Ids(store)},
          boost \in BoostAmounts : S_boost_utility(doc_ids, boost)
    \/ \E scope \in Scopes, floor \in PruneThresholds,
          cthr \in ConsolidationThresholds :
              S_decay_and_prune(scope, DecayRate, floor, cthr)
    \/ \E reply \in SummaryReplies, failAt \in 0..MaxPrinciples :
          S_consolidate_begin(reply, failAt)
    \/ S_consolidate_write
    \/ S_consolidate_rollback
    \/ S_consolidate_delete_old

StoreSpec == StoreInit /\ [][StoreNext]_vars

---------------------------------------------------------------------------
(* The search alone: retrieve_reflections over the collections a scope and
   its neighbour can hold *)

\* Records a collection can hold: lessons and a principle in the run's scope,
\* one lesson in another scope.
SearchRecords ==
    {[id |-> 1, text |-> Lesson("c1", 1), scope |-> RunScope,
      utility |-> InitialUtility, consolidated |-> FALSE],
     [id |-> 2, text |-> Lesson("h1", 1), scope |-> RunScope,
      utility |-> InitialUtility, consolidated |-> FALSE],
     [id |-> 3, text |-> Lesson("c1", 2), scope |-> RunScope,
      utility |-> InitialUtility, consolidated |-> FALSE],
     [id |-> 4, text |-> Principle(1), scope |-> RunScope,
      utility |-> InitialUtility, consolidated |-> TRUE],
     [id |-> 5, text |-> Lesson("c1", 1), scope |-> "B",
      utility |-> InitialUtility, consolidated |-> FALSE]}

TopKs == {1, 2, TopK}
SearchThresholds == {SimilarityThreshold, 80}

\* fail: whether embed_query raises.
S_retrieve_reflections(scope, top_k, similarity_threshold, fail) ==
    /\ Fault(IF fail THEN 1 ELSE 0)
    /\ last' = [NoOp EXCEPT
                   !.op = "retrieve_reflections", !.scope = scope,
                   !.arg = top_k, !.arg2 = similarity_threshold,
                   !.ret = IF fail THEN Raised ELSE Skipped,
                   !.found = IF fail THEN <<>>
                             ELSE retrieve_reflections(store, scope, top_k,
                                                       similarity_threshold),
                   !.before = store]
    /\ UNCHANGED <<store, nextId, m, ops, status, next, resuming, ws, hist,
                   instance, auxVars>>

SearchInit ==
    /\ status = "running"
    /\ next = route("START", <<>>)
    /\ resuming = FALSE
    /\ ws = InitialState(0, DefaultThreshold)
    /\ hist = InitialHist
    /\ store \in SUBSET SearchRecords
    /\ nextId = Cardinality(SearchRecords) + 1
    /\ m = IdleM
    /\ last = NoOp
    /\ ops = 0
    /\ faults = 0
    /\ instance = TRUE
    /\ AuxIdle

SearchNext ==
    \E scope \in Scopes, top_k \in TopKs, thr \in SearchThresholds,
       fail \in BOOLEAN : S_retrieve_reflections(scope, top_k, thr, fail)

SearchSpec == SearchInit /\ [][SearchNext]_vars

---------------------------------------------------------------------------
(* get_instance called from several threads at once.  Each thread is at one
   line of the method: "check" (line 48), "acquire" (49), "locked" (50),
   "construct" (51-54), "release" (the end of the with block), "return" (55);
   it ends "done" with the instance it got, or "raised". *)

Threads == 1..MaxThreads

\* Variant: no second test under the lock.
under_lock_unchecked(inst) == "construct"

\* Line 50: the test repeated under the lock.
under_lock(inst) == IF inst THEN "release" ELSE "construct"

At(t, pc) == callers[t].pc = pc
\* What get_instance never touches.
SingletonFrame ==
    UNCHANGED <<status, next, resuming, ws, hist, storeVars, procs, saved, active,
                sup>>
Goto(t, pc) == callers' = [callers EXCEPT ![t].pc = pc]

\* Line 48: if cls._instance is None.
G_check(t) ==
    /\ At(t, "check")
    /\ callers' = [callers EXCEPT
                       ![t].pc = IF instance THEN "return" ELSE "acquire",
                       ![t].waited = ~instance]
    /\ UNCHANGED <<instance, lock, made, faults>>
    /\ SingletonFrame

\* Line 49: with cls._lock.
G_acquire(t) ==
    /\ At(t, "acquire")
    /\ lock = 0
    /\ lock' = t
    /\ Goto(t, "locked")
    /\ UNCHANGED <<instance, made, faults>>
    /\ SingletonFrame

G_locked(t) ==
    /\ At(t, "locked")
    /\ Goto(t, under_lock(instance))
    /\ UNCHANGED <<instance, lock, made, faults>>
    /\ SingletonFrame

\* Lines 51-54: cls._instance = cls(...); the constructor may raise, and then
\* nothing is assigned and the exception leaves the with block.
G_construct(t, fail) ==
    /\ At(t, "construct")
    /\ Fault(IF fail THEN 1 ELSE 0)
    /\ IF fail
          THEN /\ Goto(t, "unwind")
               /\ UNCHANGED <<instance, made>>
          ELSE /\ instance' = TRUE
               /\ made' = made + 1
               /\ Goto(t, "release")
    /\ UNCHANGED lock
    /\ SingletonFrame

\* The with block releases the lock, on the normal path and on an exception.
G_release(t) ==
    /\ At(t, "release") \/ At(t, "unwind")
    /\ lock' = 0
    /\ Goto(t, IF At(t, "release") THEN "return" ELSE "raised")
    /\ UNCHANGED <<instance, made, faults>>
    /\ SingletonFrame

\* Line 55: return cls._instance, the store constructed last (0: None).
G_return(t) ==
    /\ At(t, "return")
    /\ callers' = [callers EXCEPT ![t].pc = "done", ![t].got = made]
    /\ UNCHANGED <<instance, lock, made, faults>>
    /\ SingletonFrame

SingletonInit ==
    /\ status = "running"
    /\ next = route("START", <<>>)
    /\ resuming = FALSE
    /\ ws = InitialState(0, DefaultThreshold)
    /\ hist = InitialHist
    /\ store = {}
    /\ nextId = 1
    /\ m = IdleM
    /\ last = NoOp
    /\ ops = 0
    /\ faults = 0
    /\ instance = FALSE
    /\ callers = [t \in Threads |-> [pc |-> "check", waited |-> FALSE, got |-> 0]]
    /\ lock = 0
    /\ made = 0
    /\ procs = <<>>
    /\ saved = <<>>
    /\ active = 0
    /\ sup = <<>>

SingletonNext ==
    \/ \E t \in Threads : G_check(t)
    \/ \E t \in Threads : G_acquire(t)
    \/ \E t \in Threads : G_locked(t)
    \/ \E t \in Threads, fail \in BOOLEAN : G_construct(t, fail)
    \/ \E t \in Threads : G_release(t)
    \/ \E t \in Threads : G_return(t)

SingletonSpec == SingletonInit /\ [][SingletonNext]_vars

---------------------------------------------------------------------------
(* Store operations of two runs side by side on one scope.  The store takes
   no lock around an operation, so the operations interleave at every call
   to the collection. *)

Procs == {1, 2}

RaceStores ==
    { {[id |-> 1, text |-> Lesson("c1", 1), scope |-> RunScope,
        utility |-> InitialUtility, consolidated |-> FALSE]},
      {[id |-> 1, text |-> Lesson("c1", 1), scope |-> RunScope,
        utility |-> InitialUtility, consolidated |-> FALSE],
       [id |-> 2, text |-> Lesson("h1", 1), scope |-> RunScope,
        utility |-> InitialUtility, consolidated |-> FALSE]} }
RaceTexts == {Lesson("c1", 2), Lesson("n1", 1)}
RaceFloors == {PruneThreshold, 96}

\* A process: the operation it runs, where it is, and the operation's locals
\* (near: the id of the nearest record the dedup check found, and racing: the
\* decay passes that had by then chosen what to delete and not yet deleted it;
\* all_docs and ids_to_delete of _decay_and_prune; m: the locals of
\* _consolidate).
IdleProc ==
    [op |-> "none", pc |-> "idle", text |-> NoText, thr |-> 0, near |-> 0,
     racing |-> {}, ret |-> "none", floor |-> 0, all_docs |-> {}, ids_to_delete |-> {},
     m |-> IdleM]

\* Variant: the delete call is left out.
decay_delete_skip(st, ids) == st

\* Lines 192-193: collection.delete(ids=ids_to_delete).
decay_delete(st, ids) == {r \in st : r.id \notin ids}

\* What the operations of the store never touch.
RaceFrame ==
    UNCHANGED <<status, next, resuming, ws, hist, last, ops, m, instance,
                callers, lock, made, saved, active, sup>>

Proc(p, pc) == procs[p].pc = pc

\* A run calls add_reflection_with_dedup.
R_call_write(p, text, thr) ==
    /\ Proc(p, "idle") /\ procs[p].op = "none"
    /\ procs' = [procs EXCEPT ![p].op = "add_reflection_with_dedup",
                              ![p].pc = "query", ![p].text = text,
                              ![p].thr = thr]
    /\ UNCHANGED <<store, nextId, faults>>
    /\ RaceFrame

\* Lines 123-148: the nearest record of the scope decides.
R_write_query(p) ==
    LET S == InScope(store, RunScope)
        dup == S # {} /\ NearestSim(store, procs[p].text, RunScope) >= procs[p].thr
        nearest == CHOOSE r \in S :
                       Sim(procs[p].text, r.text)
                           = NearestSim(store, procs[p].text, RunScope)
    IN  /\ Proc(p, "query")
        /\ procs' = [procs EXCEPT
                        ![p].pc = IF dup THEN "idle" ELSE "add",
                        ![p].ret = IF dup THEN "skipped" ELSE "none",
                        ![p].near = IF dup THEN nearest.id ELSE 0,
                        ![p].racing =
                            {q \in Procs : procs[q].pc \in {"update", "delete"}}]
        /\ UNCHANGED <<store, nextId, faults>>
        /\ RaceFrame

\* Lines 151-152: add_reflection.
R_write_add(p) ==
    LET w == add_reflection(store, nextId, procs[p].text, RunScope,
                            InitialUtility, FALSE)
    IN  /\ Proc(p, "add")
        /\ store' = w.store
        /\ nextId' = w.nextId
        /\ procs' = [procs EXCEPT ![p].pc = "idle", ![p].ret = "stored"]
        /\ UNCHANGED faults
        /\ RaceFrame

\* A run calls run_maintenance.
R_call_maintenance(p, floor, cthr) ==
    /\ Proc(p, "idle") /\ procs[p].op = "none"
    /\ procs' = [procs EXCEPT ![p].op = "run_maintenance", ![p].pc = "get",
                              ![p].floor = floor,
                              ![p].m = [IdleM EXCEPT !.max_count = cthr]]
    /\ UNCHANGED <<store, nextId, faults>>
    /\ RaceFrame

\* Lines 179-187: collection.get and the choice of what to delete.
R_decay_get(p) ==
    LET docs == InScope(store, RunScope)
    IN  /\ Proc(p, "get")
        /\ procs' = [procs EXCEPT
                        ![p].pc = "update", ![p].all_docs = docs,
                        ![p].ids_to_delete =
                            {r.id : r \in {d \in docs :
                                d.utility - DecayRate < procs[p].floor}}]
        /\ UNCHANGED <<store, nextId, faults>>
        /\ RaceFrame

\* Lines 188-192: collection.update for every record that stays, with the
\* metadata that was read; an id that is gone by now is passed over.
R_decay_update(p) ==
    LET keep == {d \in procs[p].all_docs : d.id \notin procs[p].ids_to_delete}
        new(r) == IF \E d \in keep : d.id = r.id
                     THEN LET d == CHOOSE d \in keep : d.id = r.id
                          IN  [d EXCEPT !.utility = d.utility - DecayRate]
                     ELSE r
    IN  /\ Proc(p, "update")
        /\ store' = {new(r) : r \in store}
        /\ procs' = [procs EXCEPT ![p].pc = "delete"]
        /\ UNCHANGED <<nextId, faults>>
        /\ RaceFrame

R_decay_delete(p) ==
    /\ Proc(p, "delete")
    /\ store' = decay_delete(store, procs[p].ids_to_delete)
    /\ procs' = [procs EXCEPT ![p].pc = "consolidate"]
    /\ UNCHANGED <<nextId, faults>>
    /\ RaceFrame

\* The process's view of the store, as the operators of _consolidate take it.
ProcMachine(p) == [store |-> store, nextId |-> nextId, m |-> procs[p].m]

ProcBecomes(p, x) ==
    /\ store' = x.store
    /\ nextId' = x.nextId
    /\ procs' = [procs EXCEPT ![p].m = x.m,
                              ![p].pc = IF x.m.pc = "idle" THEN "idle"
                                        ELSE "consolidating",
                              ![p].ret = IF x.m.pc = "idle" THEN x.m.result
                                         ELSE "none"]
    /\ RaceFrame

R_consolidate_begin(p, reply, failAt) ==
    LET x == consolidate_begin(ProcMachine(p), RunScope, procs[p].m.max_count,
                               reply, failAt)
    IN  /\ Proc(p, "consolidate")
        /\ reply.kind = "raise" => x.m.result = "raised"
        /\ failAt # 0 => x.m.pc = "write" /\ failAt <= Len(x.m.principles)
        /\ Fault((IF reply.kind = "raise" THEN 1 ELSE 0)
                 + (IF failAt # 0 THEN 1 ELSE 0))
        /\ ProcBecomes(p, x)

\* One call to the collection of lines 240-249.
R_consolidate_step(p) ==
    /\ Proc(p, "consolidating")
    /\ ProcBecomes(p, consolidate_step(ProcMachine(p)))
    /\ UNCHANGED faults

RaceInit ==
    /\ status = "running"
    /\ next = route("START", <<>>)
    /\ resuming = FALSE
    /\ ws = InitialState(0, DefaultThreshold)
    /\ hist = InitialHist
    /\ store \in RaceStores
    /\ nextId = Cardinality(store) + 1
    /\ m = IdleM
    /\ last = NoOp
    /\ ops = 0
    /\ faults = 0
    /\ instance = TRUE
    /\ callers = <<>>
    /\ lock = 0
    /\ made = 0
    /\ procs = [p \in Procs |-> IdleProc]
    /\ saved = <<>>
    /\ active = 0
    /\ sup = <<>>

RaceNext ==
    \/ \E p \in Procs, text \in RaceTexts : R_call_write(p, text, DedupThreshold)
    \/ \E p \in Procs : R_write_query(p)
    \/ \E p \in Procs : R_write_add(p)
    \/ \E p \in Procs, floor \in RaceFloors, cthr \in ConsolidationThresholds :
          R_call_maintenance(p, floor, cthr)
    \/ \E p \in Procs : R_decay_get(p)
    \/ \E p \in Procs : R_decay_update(p)
    \/ \E p \in Procs : R_decay_delete(p)
    \/ \E p \in Procs, reply \in SummaryReplies, failAt \in 0..MaxPrinciples :
          R_consolidate_begin(p, reply, failAt)
    \/ \E p \in Procs : R_consolidate_step(p)

RaceSpec == RaceInit /\ [][RaceNext]_vars

---------------------------------------------------------------------------
(* Two runs of one compiled graph, told apart by thread_id.  The graph keeps
   every run's last checkpoint in its checkpointer, a MemorySaver: a
   dictionary in the memory of the process.  The run that is being driven has
   its checkpoint in status, next, resuming, ws and hist, and its entry of
   saved is a placeholder until the driver turns to the other run, which it
   may do between any two steps.  Run 1 may retry once, run 2 not at all.
   The external services are taken not to fail here. *)

RunIds == {1, 2}

\* Variant: every run is kept under one key.
checkpoint_key_shared(rid) == 1

\* config["configurable"]["thread_id"]
checkpoint_key(rid) == rid

Checkpoint == [status |-> status, next |-> next, resuming |-> resuming,
               ws |-> ws, hist |-> hist]

\* graph.get_state(config) for a thread_id the checkpointer does not know:
\* no values and next = ().
NoCheckpoint ==
    [status |-> "unknown", next |-> "END", resuming |-> FALSE,
     ws |-> InitialState(0, DefaultThreshold),
     hist |-> [InitialHist EXCEPT !.event = "unknown"]]

\* The entry of the run that is being driven.
InHand == [NoCheckpoint EXCEPT !.status = "in hand"]

Load(c) ==
    /\ status' = c.status
    /\ next' = c.next
    /\ resuming' = c.resuming
    /\ ws' = c.ws
    /\ hist' = c.hist

\* The driver leaves the run it was driving at its last checkpoint and turns
\* to run rid.
Switch(rid) ==
    LET put == [saved EXCEPT ![checkpoint_key(active)] = Checkpoint]
    IN  /\ rid \in RunIds \ {active}
        /\ saved' = [put EXCEPT ![checkpoint_key(rid)] = InHand]
        /\ active' = rid
        /\ Load(put[checkpoint_key(rid)])
        /\ UNCHANGED <<storeVars, faults, instance, callers, lock, made, procs, sup>>

\* The process ends and a new one builds the graph again (graph.py:62-67):
\* a new MemorySaver, which knows no thread_id, and no store instance yet.
\* The collection is on disk and stays.
Restart ==
    /\ status # "unknown"
    /\ saved' = [r \in RunIds |-> NoCheckpoint]
    /\ Load(NoCheckpoint)
    /\ instance' = FALSE
    /\ UNCHANGED <<storeVars, faults, active, callers, lock, made, procs, sup>>

RunsInit ==
    /\ status = "running"
    /\ next = route("START", <<>>)
    /\ resuming = FALSE
    /\ ws = InitialState(1, DefaultThreshold)
    /\ hist = InitialHist
    /\ store = {}
    /\ nextId = 1
    /\ m = IdleM
    /\ last = NoOp
    /\ ops = 0
    /\ faults = MaxFaults
    /\ instance = FALSE
    /\ callers = <<>>
    /\ lock = 0
    /\ made = 0
    /\ procs = <<>>
    /\ saved = [r \in RunIds |->
                    IF r = 1 THEN InHand
                    ELSE [Checkpoint EXCEPT !.ws.max_iterations = 0]]
    /\ active = 1
    /\ sup = <<>>

RunsNext ==
    \/ \E fail \in {"none", "construct", "search", "boost"} : retrieve_memory(fail)
    \/ grade_relevance
    \/ \E draft \in NextDrafts : generate(draft)
    \/ \E raw \in EvalReplies : evaluator(raw)
    \/ \E k \in LessonVariants, fail \in 0..4, reply \in SummaryReplies,
          failAt \in 0..MaxPrinciples : reflector(k, fail, reply, failAt)
    \/ finalize
    \/ Interrupt
    \/ Resume
    \/ \E c \in HumanCritiques : Override(c)
    \/ \E rid \in RunIds : Switch(rid)
    \/ Restart

RunsSpec == RunsInit /\ [][RunsNext]_vars

---------------------------------------------------------------------------
(* The store calls of one reflect step after another (agents.py:224-236):
   add_reflection_with_dedup, then run_maintenance with its defaults.  ops
   counts the maintenance passes; last.arg counts the consolidations that
   replaced the scope by principles and last.arg2 those that were needed and
   gave up. *)

\* The lessons of the passes, each far from the others.
LongSrcs ==
    <<"s1", "s2", "s3", "s4", "s5", "s6", "s7", "s8", "s9", "s10", "s11", "s12",
      "s13", "s14", "s15", "s16", "s17", "s18">>

\* fresh: the lesson is a new one; otherwise it is the first lesson again.
\* The steps bring new lessons for a while and from then on the first lesson
\* only (last.text is the lesson written last).
L_write(fresh) ==
    LET text == Lesson(LongSrcs[IF fresh THEN ops + 1 ELSE 1], 1)
        w == add_reflection_with_dedup(store, nextId, text, RunScope,
                                       DedupThreshold, 0)
    IN  /\ m.pc = "idle"
        /\ ops < MaxPasses
        /\ ops = 0 => fresh
        /\ fresh => ops <= 1 \/ last.text # Lesson(LongSrcs[1], 1)
        /\ last' = [last EXCEPT !.text = text]
        /\ store' = w.store
        /\ nextId' = w.nextId
        /\ m' = [IdleM EXCEPT !.pc = "written"]
        /\ UNCHANGED <<ops, faults, status, next, resuming, ws, hist,
                       instance, auxVars>>

L_run_maintenance(reply, failAt) ==
    LET x == run_maintenance([store |-> store, nextId |-> nextId, m |-> IdleM],
                             RunScope, DecayRate, PruneThreshold,
                             ConsolidationThreshold, reply, failAt)
        gave_up == x.m.result \in {"raised", "no_principles", "rolled_back"}
    IN  /\ m.pc = "written"
        /\ reply.kind = "raise" => x.m.result = "raised"
        /\ failAt # 0 => x.m.result = "rolled_back"
        /\ x.m.result = "not_needed" => reply.kind = "ok" /\ reply.lines = <<>>
        /\ Fault((IF reply.kind = "raise" THEN 1 ELSE 0)
                 + (IF failAt # 0 THEN 1 ELSE 0))
        /\ store' = x.store
        /\ nextId' = x.nextId
        /\ m' = x.m
        /\ ops' = ops + 1
        /\ last' = [last EXCEPT
                       !.op = "run_maintenance",
                       !.arg = @ + (IF x.m.result = "consolidated" THEN 1 ELSE 0),
                       !.arg2 = @ + (IF gave_up THEN 1 ELSE 0)]
        /\ UNCHANGED <<status, next, resuming, ws, hist, instance, auxVars>>

LongNext ==
    \/ \E fresh \in BOOLEAN : L_write(fresh)
    \/ \E reply \in SummaryReplies, failAt \in 0..MaxPrinciples :
          L_run_maintenance(reply, failAt)

LongSpec == StoreInit /\ [][LongNext]_vars

---------------------------------------------------------------------------
(* The whitepaper supervisor graph (supervisor_v2): Supervisor routes to
   Researcher, Writer or Editor, every worker returns to Supervisor, and
   FINISH ends the run.  sup is the WhitepaperState with at, the node the
   graph executes next, and two counts kept for the record: asked, the routing
   calls to the model, and reviews, the executions of editor_node.  A message
   is [tag, n]; they are all HumanMessages.  Model and search calls return. *)

\* agents.py:96, the safety valve.
RevisionLimit == 3

\* RouteResponse.next
Routes == {"Researcher", "Writer", "Editor", "FINISH"}

Message(tag, n) == [tag |-> tag, n |-> n]

\* Variant: the valve never closes.
safety_valve_open(revision_count) == FALSE

\* Line 96.
safety_valve(revision_count) == revision_count >= RevisionLimit

\* Lines 96-137: what supervisor_node returns as next; reply is the route the
\* model gives when it is asked.
supervisor_route(last_actor, revision_count, reply) ==
    IF safety_valve(revision_count) THEN "FINISH"
    ELSE IF last_actor = "" THEN "Researcher"
    ELSE IF last_actor = "Researcher" THEN "Writer"
    ELSE IF last_actor = "Writer" THEN "Editor"
    ELSE IF last_actor = "Editor" THEN reply
    ELSE "FINISH"

SupFrame ==
    UNCHANGED <<status, next, resuming, ws, hist, storeVars, faults, instance,
                callers, lock, made, procs, saved, active>>

\* supervisor_node and the conditional edge that follows it (graph.py:37-46).
supervisor_node(reply) ==
    LET revision_count == sup.scratchpad.revision_count
        asks == ~safety_valve(revision_count) /\ sup.last_actor = "Editor"
        route_to == supervisor_route(sup.last_actor, revision_count, reply)
    IN  /\ sup # <<>>
        /\ sup.at = "Supervisor"
        /\ ~asks => reply = "FINISH"
        /\ sup' = [sup EXCEPT !.next = route_to,
                              !.at = IF route_to = "FINISH" THEN "END" ELSE route_to,
                              !.asked = @ + (IF asks THEN 1 ELSE 0)]
        /\ SupFrame

\* researcher_node, lines 160-212; the topic is the scratchpad's or else the
\* content of the last message.
researcher_node ==
    LET sp == sup.scratchpad
        topic == IF sp.topic # "" THEN sp.topic
                 ELSE IF sup.messages = <<>> THEN ""
                 ELSE sup.messages[Len(sup.messages)].tag
        combined == sp.research_data # "" /\ sp.editor_critique # ""
    IN  /\ sup # <<>>
        /\ sup.at = "Researcher"
        /\ sup' = IF topic = ""
                     THEN [sup EXCEPT
                              !.messages = Append(@, Message("[Researcher] none", 0)),
                              !.last_actor = "Researcher",
                              !.at = "Supervisor"]
                     ELSE [sup EXCEPT
                              !.messages = Append(@, Message("[Researcher]", 0)),
                              !.scratchpad.topic = topic,
                              !.scratchpad.research_data =
                                  IF combined THEN "combined" ELSE "raw",
                              !.last_actor = "Researcher",
                              !.at = "Supervisor"]
        /\ SupFrame

\* writer_node, lines 244-270.
writer_node ==
    LET revising == sup.scratchpad.editor_critique # ""
    IN  /\ sup # <<>>
        /\ sup.at = "Writer"
        /\ sup' = [sup EXCEPT
                      !.messages =
                          Append(@, Message(IF revising THEN "[Writer] revised"
                                            ELSE "[Writer]", 0)),
                      !.scratchpad.current_draft =
                          IF revising THEN "revised" ELSE "first",
                      !.last_actor = "Writer",
                      !.at = "Supervisor"]
        /\ SupFrame

\* editor_node, lines 301-331.
editor_node ==
    LET revision_count == sup.scratchpad.revision_count + 1
    IN  /\ sup # <<>>
        /\ sup.at = "Editor"
        /\ sup' = [sup EXCEPT
                      !.messages = Append(@, Message("[Editor]", revision_count)),
                      !.scratchpad.editor_critique = "critique",
                      !.scratchpad.revision_count = revision_count,
                      !.last_actor = "Editor",
                      !.at = "Supervisor",
                      !.reviews = @ + 1]
        /\ SupFrame

\* The initial states a caller passes: the topic as the first message
\* (test_supervisor_v2.py:19-28), in the scratchpad, in both, or nowhere.
SupInitialStates ==
    { [at |-> "Supervisor", next |-> "", last_actor |-> "",
       messages |-> msgs,
       scratchpad |-> [topic |-> topic, research_data |-> "",
                       current_draft |-> "", editor_critique |-> "",
                       revision_count |-> 0],
       asked |-> 0, reviews |-> 0] :
      msgs \in {<<>>, <<Message("topic", 0)>>}, topic \in {"", "topic"} }

SupInit ==
    /\ status = "running"
    /\ next = route("START", <<>>)
    /\ resuming = FALSE
    /\ ws = InitialState(0, DefaultThreshold)
    /\ hist = InitialHist
    /\ store = {}
    /\ nextId = 1
    /\ m = IdleM
    /\ last = NoOp
    /\ ops = 0
    /\ faults = 0
    /\ instance = FALSE
    /\ callers = <<>>
    /\ lock = 0
    /\ made = 0
    /\ procs = <<>>
    /\ saved = <<>>
    /\ active = 0
    /\ sup \in SupInitialStates

SupNext ==
    \/ \E reply \in Routes : supervisor_node(reply)
    \/ researcher_node
    \/ writer_node
    \/ editor_node

\* The graph runs the pending node until it reaches END.
SupSpec == SupInit /\ [][SupNext]_vars /\ WF_vars(SupNext)

---------------------------------------------------------------------------
(* The refinement graph: what was claimed *)

MeetsThreshold == ws.score >= ws.score_threshold
BudgetSpent == ws.iteration >= ws.max_iterations
AfterReflect == hist.event = "node" /\ hist.lastNode = "reflector"
FinalizeReached == next = "finalize" \/ hist.lastNode = "finalize"

\* C1: after every evaluate step the next state is finalize if and only if
\* score >= score_threshold or iteration >= max_iterations, and reflect
\* otherwise (so a score that meets the threshold finalizes with budget left).
C1_RetryDecision ==
    hist.lastNode = "evaluator" =>
        /\ next \in {"finalize", "reflector"}
        /\ (next = "finalize") <=> (MeetsThreshold \/ BudgetSpent)

C1_Witness ==
    /\ hist.lastNode = "evaluator"
    /\ next = "finalize"
    /\ ws.score = ws.score_threshold
    /\ ws.iteration < ws.max_iterations

\* C2: a run that is resumed whenever it is paused reaches finalize after at
\* most max_iterations reflect steps: it never stops anywhere else (every
\* state short of the end has a step to take) and iteration, the number of
\* reflect steps, stays within max_iterations.
C2_Termination ==
    /\ status = "done" \/ ENABLED Next
    /\ ws.iteration <= ws.max_iterations

\* C3: when finalize is reached iteration <= max_iterations, and the score
\* at stop is >= score_threshold or iteration = max_iterations.
C3_FinalizeBound ==
    FinalizeReached =>
        /\ ws.iteration <= ws.max_iterations
        /\ MeetsThreshold \/ ws.iteration = ws.max_iterations

C3_Witness ==
    /\ hist.lastNode = "finalize"
    /\ ws.max_iterations = 3
    /\ ws.iteration = 3
    /\ ~MeetsThreshold

\* One step of a run at the interrupt points.
C4_Step ==
    /\ status' = "paused" =>
          /\ next' \in {"reflector", "finalize"}
          /\ status # "paused" => next' = next /\ ws' = ws
    /\ hist'.event = "node" /\ hist'.lastNode \in {"reflector", "finalize"} =>
          hist.event = "resume"
    /\ hist.event = "resume" /\ hist'.event = "node" =>
          /\ hist'.lastNode = hist.pending
          /\ hist'.lastNode = next

\* C4: execution pauses immediately before reflect and immediately before
\* finalize and nowhere else; reflect and finalize execute only as the step
\* that follows a resume; the node a resume executes is the pending one that
\* was selected before the pause.
C4_InterruptPoints == [][C4_Step]_vars

C4_Witness ==
    /\ status = "done"
    /\ hist.lastNode = "finalize"
    /\ ws.iteration >= 1

\* C5: when critique was overwritten while the run was paused before reflect,
\* the lesson of the reflect step that runs on resume is derived from the
\* overriding critique and not from the evaluator's; it is the lesson
\* appended to reflections and, when the write stores a record, the text of
\* the record in the run's scope.
C5_OverrideDrivesLesson ==
    AfterReflect /\ hist.lessonOverridden =>
        /\ hist.lesson.src = hist.humanCritique
        /\ hist.lesson.src # hist.evalCritique
        /\ ws.reflections[Len(ws.reflections)] = hist.lesson
        /\ hist.write = "stored" /\ hist.maint # "consolidated" =>
              \E r \in InScope(store, RunScope) : r.text = hist.lesson

C5_Witness ==
    /\ AfterReflect
    /\ hist.lessonOverridden
    /\ hist.write = "stored"
    /\ hist.evalCritique \in EvalCritiques

---------------------------------------------------------------------------
(* The store: what was claimed *)

InConsolidation == last.op = "consolidate"
MaintenanceEnded == last.op = "consolidate" /\ m.pc = "idle"
Originals == {r \in m.snap : r.id \in m.all_ids}
Written(i) ==
    \E r \in store : /\ r.id = m.new_ids[i]
                     /\ r.text = m.principles[i]
                     /\ r.consolidated

\* C6: a consolidation writes the principle records before it deletes any
\* original; when a principle write fails, the principle records it had
\* written are gone and every original is still there; an original is
\* missing only when every principle has been written.
C6_FailSafe ==
    InConsolidation =>
        /\ m.pc \in {"write", "rollback"} => Originals \subseteq store
        /\ m.pc = "idle" /\ m.result = "rolled_back" => store = m.snap
        /\ ~(Originals \subseteq store) =>
              /\ m.failAt = 0
              /\ m.principles # <<>>
              /\ Len(m.new_ids) = Len(m.principles)
              /\ \A i \in 1..Len(m.principles) : Written(i)

C6_Witness ==
    /\ MaintenanceEnded
    /\ m.result = "rolled_back"
    /\ Len(m.new_ids) >= 1
    /\ Originals # {}

DedupWriteReturned ==
    last.op = "add_reflection_with_dedup" /\ last.ret # Raised

\* The records of the scope nearest to the text, before the write.
NearestBefore ==
    LET S == InScope(last.before, last.scope)
    IN  {r \in S : \A q \in S : Sim(last.text, q.text) <= Sim(last.text, r.text)}

\* C7: add_reflection_with_dedup compares the lesson with its nearest record
\* of the same scope only: at similarity >= dedup_threshold nothing is
\* written and none is returned; otherwise, and in an empty scope, exactly
\* one record with utility_score 1.0 is written and its id returned.  With
\* threshold 0.92 a neighbour at 0.95 leaves one record, one at 0.80 two.
C7_DedupWrite ==
    DedupWriteReturned =>
        /\ IF \E r \in NearestBefore : Sim(last.text, r.text) >= last.arg
              THEN /\ last.ret = Skipped
                   /\ store = last.before
              ELSE /\ last.ret.kind = "stored"
                   /\ last.ret.id \notin Ids(last.before)
                   /\ store = last.before \cup
                         {[id |-> last.ret.id, text |-> last.text,
                           scope |-> last.scope, utility |-> 100,
                           consolidated |-> FALSE]}
        /\ \A r \in last.before :
              InScope(last.before, last.scope) = {r} /\ last.arg = 92 =>
                 /\ Sim(last.text, r.text) = 95 =>
                       Cardinality(InScope(store, last.scope)) = 1
                 /\ Sim(last.text, r.text) = 80 =>
                       Cardinality(InScope(store, last.scope)) = 2

C7_Witness ==
    /\ DedupWriteReturned
    /\ last.arg = 92
    /\ last.ret = Skipped
    /\ Cardinality(InScope(store, last.scope)) = 1
    /\ \E r \in NearestBefore : Sim(last.text, r.text) = 95

\* C8: the same text written twice in a row into the same scope with
\* dedup_threshold <= 1.0 (the first write stored, or both used one
\* threshold): the second write returns none and stores nothing, and the
\* scope holds exactly one record of a text the first write stored.
C8_DedupIdempotent ==
    /\ DedupWriteReturned
    /\ last.prev.op = "add_reflection_with_dedup"
    /\ last.prev.kind # "raised"
    /\ last.prev.text = last.text
    /\ last.prev.scope = last.scope
    /\ last.arg <= 100 /\ last.prev.arg <= 100
    /\ last.prev.kind = "stored" \/ last.prev.arg = last.arg
    => /\ last.ret = Skipped
       /\ store = last.before
       /\ last.prev.kind = "stored" =>
             Cardinality({r \in InScope(store, last.scope) :
                             r.text = last.text}) = 1

C8_Witness ==
    /\ DedupWriteReturned
    /\ last.prev.op = "add_reflection_with_dedup"
    /\ last.prev.kind = "stored"
    /\ last.prev.text = last.text
    /\ last.prev.scope = last.scope
    /\ last.arg = 100
    /\ last.ret = Skipped
    /\ Cardinality(InScope(store, last.scope)) = 2

Decayed == last.op = "decay_and_prune"

\* C9: one decay pass lowers the utility_score of every record of the scope
\* by decay_rate; a record whose lowered score is below prune_floor is
\* deleted and every other one, one exactly at prune_floor included, is kept
\* with the lowered score; the pass adds no record.
C9_DecayAndPrune ==
    Decayed =>
        /\ \A r \in InScope(last.before, last.scope) :
              IF r.utility - last.arg < last.arg2
                 THEN r.id \notin Ids(store)
                 ELSE [r EXCEPT !.utility = r.utility - last.arg] \in store
        /\ Ids(store) \subseteq Ids(last.before)

C9_Witness ==
    /\ Decayed
    /\ \E r, q \in InScope(last.before, last.scope) :
          /\ r.utility = last.arg2 + last.arg + 1
          /\ [r EXCEPT !.utility = last.arg2 + 1] \in store
          /\ q.utility = last.arg2 + last.arg - 1
          /\ q.id \notin Ids(store)

AllPrinciples(S) ==
    \A r \in S : /\ r.consolidated
                 /\ r.utility = 100
                 /\ r.scope = m.scope
                 /\ r.id \notin Ids(m.pre)

HeldOneOverThreshold ==
    Cardinality(InScope(m.pre, m.scope)) = m.max_count + 1

\* C10 as claimed: a scope holding consolidation_threshold + 1 records
\* contains after run_maintenance at most 3 records, all of them consolidated
\* (utility_score 1.0, the scope's metadata) and none of the originals.
C10_AsClaimed ==
    MaintenanceEnded /\ HeldOneOverThreshold =>
        /\ Cardinality(InScope(store, m.scope)) <= 3
        /\ AllPrinciples(InScope(store, m.scope))

\* C10, amended: the same, for a pass whose decay phase prunes no record of
\* the scope, whose summarization returns at least one principle and whose
\* principle writes all succeed.
C10_Consolidation ==
    /\ MaintenanceEnded
    /\ HeldOneOverThreshold
    /\ Cardinality(InScope(m.snap, m.scope)) = m.max_count + 1
    /\ m.result \notin {"raised", "no_principles", "rolled_back"}
    => /\ Cardinality(InScope(store, m.scope)) <= 3
       /\ InScope(store, m.scope) # {}
       /\ AllPrinciples(InScope(store, m.scope))

C10_Witness ==
    /\ MaintenanceEnded
    /\ HeldOneOverThreshold
    /\ m.result = "consolidated"
    /\ Cardinality(InScope(store, m.scope)) = 3
    /\ AllPrinciples(InScope(store, m.scope))

SummarizationFailed ==
    MaintenanceEnded /\ m.result \in {"raised", "no_principles"}

Flags(S) == {<<r.id, r.consolidated>> : r \in S}

\* C11 as claimed: when the summarization call of a consolidation raises or
\* returns no parseable principle, the scope has after run_maintenance the
\* record count and the consolidated flags it had before the call.
C11_AsClaimed ==
    SummarizationFailed =>
        /\ Cardinality(InScope(store, m.scope)) = Cardinality(InScope(m.pre, m.scope))
        /\ Flags(InScope(store, m.scope)) = Flags(InScope(m.pre, m.scope))

\* C11, amended: when the summarization call raises or returns no parseable
\* principle, the consolidation leaves the collection as the decay phase of
\* the same run_maintenance left it: every record of the scope is a record
\* from before the call with its flag, and count and flags are those from
\* before the call when the decay phase pruned no record of the scope.
C11_SummarizationFailure ==
    SummarizationFailed =>
        /\ store = m.snap
        /\ Flags(InScope(store, m.scope)) \subseteq Flags(InScope(m.pre, m.scope))
        /\ Cardinality(InScope(m.snap, m.scope)) = Cardinality(InScope(m.pre, m.scope))
              => Flags(InScope(store, m.scope)) = Flags(InScope(m.pre, m.scope))

C11_Witness ==
    /\ SummarizationFailed
    /\ m.result = "no_principles"
    /\ Cardinality(InScope(store, m.scope)) > m.max_count
    /\ InScope(store, m.scope) = InScope(m.snap, m.scope)

Boosted == last.op = "boost_utility"

\* C12: boost_utility raises the utility_score of each named record by the
\* amount but never above 2.0 and leaves every other record alone; whatever
\* operations ran, no record has a utility_score above 2.0, and a record at
\* 2.0 that is boosted stays at 2.0.
C12_BoostCap ==
    /\ \A r \in store : r.utility <= 200
    /\ Boosted =>
          /\ Ids(store) = Ids(last.before)
          /\ \A r \in last.before :
                IF r.id \in last.ids
                   THEN /\ [r EXCEPT !.utility =
                                IF r.utility + last.arg <= 200
                                   THEN r.utility + last.arg ELSE 200] \in store
                        /\ r.utility = 200 => r \in store
                   ELSE r \in store

C12_Witness ==
    /\ Boosted
    /\ \E r \in last.before : r.id \in last.ids /\ r.utility = 200 /\ r \in store

---------------------------------------------------------------------------
(* The refinement graph: error handling and the state's fields *)

\* C13: a run never aborts because of what the model returns or of a Memory
\* Store step that fails (construction, search, boost, write, maintenance):
\* every node completes and the run is running, paused or done.
C13_NeverAborts == status \in {"running", "paused", "done"}

StoreCallRaised == hist.write = "raised" \/ hist.maint = "raised"

\* A reflector step whose dedup write or maintenance pass raised.
C14_Step ==
    status = "running" /\ next = "reflector" /\ hist'.event = "node"
    /\ hist'.lastNode = "reflector"
    /\ (hist'.write = "raised" \/ hist'.maint = "raised")
    => /\ status' = "running"
       /\ next' = "retrieve_memory"
       /\ ws'.iteration = ws.iteration + 1
       /\ ws'.reflections = Append(ws.reflections, hist'.lesson)
       /\ hist'.lesson.src = ws.critique

\* C14: when the dedup write or the maintenance pass raises, reflect still
\* completes, increments iteration by exactly one, appends the derived
\* lesson to the session reflections, and the run continues to
\* retrieve_memory.
C14_ReflectBestEffort == [][C14_Step]_vars

C14_Witness ==
    /\ AfterReflect
    /\ hist.maint = "raised"
    /\ hist.write = "stored"
    /\ next = "retrieve_memory"
    /\ ws.iteration = 2

AfterRetrieve == hist.event = "node" /\ hist.lastNode = "retrieve_memory"
Retrievable(st) ==
    {r.text : r \in Range(retrieve_reflections(st, RunScope, TopK,
                                               SimilarityThreshold))}

\* C15 as claimed: on any store error during retrieval, the error of the
\* boost that follows a successful search included, retrieve_memory does not
\* fail and retrieved_memories holds only the session's reflections.
C15_AsClaimed ==
    AfterRetrieve /\ hist.retrieval # "none" =>
        /\ status = "running" /\ next = "grade_relevance"
        /\ Range(ws.retrieved_memories) = Range(ws.reflections)

\* C15, amended: retrieve_memory never fails on a store error; when the
\* construction of the store or the search raises, retrieved_memories holds
\* only the session's reflections; when the boost after a successful search
\* raises, it holds the session's reflections and the lessons the search
\* returned.
C15_RetrieveDegrades ==
    AfterRetrieve /\ hist.retrieval # "none" =>
        /\ status = "running" /\ next = "grade_relevance"
        /\ Range(ws.reflections) \subseteq Range(ws.retrieved_memories)
        /\ hist.retrieval \in {"construct", "search"} =>
              Range(ws.retrieved_memories) = Range(ws.reflections)
        /\ hist.retrieval = "boost" =>
              Range(ws.retrieved_memories) =
                  Range(ws.reflections) \cup Retrievable(store)

C15_Witness ==
    /\ AfterRetrieve
    /\ hist.retrieval = "search"
    /\ ws.reflections # <<>>
    /\ Retrievable(store) \ Range(ws.reflections) # {}
    /\ Range(ws.retrieved_memories) = Range(ws.reflections)

AfterGrade == hist.event = "node" /\ hist.lastNode = "grade_relevance"
RightShape ==
    /\ hist.grading.kind = "list"
    /\ Len(hist.grading.verdicts) = Len(ws.retrieved_memories)
YesAt == {i \in 1..Len(ws.retrieved_memories) : IsYes(hist.grading.verdicts[i])}

\* C16: when the grader's reply is no list, or a list whose length differs
\* from the number of retrieved lessons, graded_memories holds every
\* retrieved lesson in order; otherwise it holds exactly the lessons whose
\* verdict is YES, in their original order.
C16_GradeConservative ==
    AfterGrade =>
        IF ~RightShape
           THEN ws.graded_memories = ws.retrieved_memories
           ELSE \E at \in [1..Len(ws.graded_memories) -> YesAt] :
                   /\ \A i \in YesAt : \E k \in DOMAIN at : at[k] = i
                   /\ \A j, k \in DOMAIN at : j < k => at[j] < at[k]
                   /\ \A k \in DOMAIN at :
                         ws.graded_memories[k] = ws.retrieved_memories[at[k]]

C16_Witness ==
    /\ AfterGrade
    /\ hist.grading.kind = "list"
    /\ Len(hist.grading.verdicts) # Len(ws.retrieved_memories)
    /\ Len(ws.retrieved_memories) >= 2
    /\ ws.graded_memories = ws.retrieved_memories

\* The evaluator's last reply held no usable score and critique.
Unusable == hist.evalReply.kind # "none" /\ ~hist.evalReply.numeric

\* C17: when the evaluator's reply cannot be parsed into a score and a
\* critique, evaluate does not abort: it sets score to 0.5 and critique to the
\* placeholder, and the run continues with the retry decision.
C17_EvaluateDefault ==
    Unusable =>
        /\ ~(status = "aborted" /\ next = "evaluator")
        /\ hist.lastNode = "evaluator" /\ ~hist.overridden =>
              /\ ws.score = DefaultScore
              /\ ws.critique = PlaceholderCritique
              /\ next = should_retry_or_finish(ws)

\* A step in which reflector runs to its end.
ReflectStep == status = "running" /\ next = "reflector" /\ hist'.event = "node"

C18_Step ==
    /\ ws'.iteration = IF ReflectStep THEN ws.iteration + 1 ELSE ws.iteration
    /\ ws'.iteration >= ws.iteration

\* C18: iteration only increases during a run: each reflect step increments
\* it by exactly one, and no other node, pause, resume or override changes
\* it.
C18_IterationMonotone == [][C18_Step]_vars

C18_Witness ==
    /\ AfterReflect
    /\ ws.iteration = 2
    /\ Len(ws.reflections) = 2

\* A step in which generate runs.
GenerateStep == status = "running" /\ next = "generate" /\ hist'.event = "node"

\* The number of generate steps executed: one in every finished round and
\* one in the current round once generate is behind.
Generated ==
    ws.iteration
    + (IF next \in {"evaluator", "reflector", "finalize", "END"} THEN 1 ELSE 0)

C19_Step ==
    /\ IF GenerateStep
          THEN ws'.revision_history =
                  Append(ws.revision_history, ws'.current_draft)
          ELSE /\ ws'.revision_history = ws.revision_history
               /\ ws'.current_draft = ws.current_draft
    /\ Len(ws'.revision_history) = Generated'
    /\ hist'.lastNode \in {"evaluator", "reflector", "finalize"} =>
          Len(ws'.revision_history) >= 1
    /\ ws'.revision_history # <<>> =>
          ws'.current_draft = ws'.revision_history[Len(ws'.revision_history)]

\* C19: revision_history is append-only: every generate step appends exactly
\* the new draft and sets current_draft to it, no other step touches either,
\* so its length is the number of generate steps executed, it is at least 1
\* from the first evaluate on, and current_draft is its last element.
C19_RevisionHistory == [][C19_Step]_vars

C19_Witness ==
    /\ hist.lastNode = "generate"
    /\ Len(ws.revision_history) = 3
    /\ ws.current_draft = ws.revision_history[3]
    /\ ws.revision_history[1] = ws.revision_history[3]

Finalized == hist.lastNode = "finalize"

\* C20: final_output is set only by finalize: it keeps its initial value as
\* long as finalize has not executed; after finalize it equals current_draft,
\* the last draft generated; and once the run is done no transition changes
\* its state.
C20_FinalOutput ==
    /\ ~Finalized => ws.final_output = "" /\ status # "done"
    /\ Finalized =>
          /\ status = "done" /\ next = "END"
          /\ ws.final_output = ws.current_draft
          /\ ws.final_output = ws.revision_history[Len(ws.revision_history)]
    /\ status = "done" => ~ENABLED Next

C20_Witness ==
    /\ Finalized
    /\ status = "done"
    /\ Len(ws.revision_history) = 2
    /\ ws.final_output = "d2"

---------------------------------------------------------------------------
(* C21: scopes are isolated *)

Outside(st, scope) == {r \in st : r.scope # scope}

\* The dedup write that has just returned was skipped.
WriteSkipped ==
    last.op = "add_reflection_with_dedup" /\ last.ret = Skipped

\* C21: a dedup write is skipped only when a record of its own scope is at
\* least as similar to the text as the threshold, whatever other scopes hold;
\* and a dedup write, a decay pass and every step of a consolidation leave the
\* records of all other scopes (their presence, utility_score and consolidated
\* flag) exactly as they were before.
C21_ScopeIsolation ==
    /\ WriteSkipped =>
           \E r \in last.before :
               r.scope = last.scope /\ Sim(last.text, r.text) >= last.arg
    /\ last.op \in {"add_reflection_with_dedup", "decay_and_prune", "consolidate"} =>
           Outside(store, last.scope) = Outside(last.before, last.scope)
    /\ last.op = "consolidate" =>
           Outside(store, m.scope) = Outside(m.pre, m.scope)

\* A maintenance pass over the run's scope pruned the scope's only record while
\* another scope held a record with the same text; that record kept its
\* utility_score, and the text was then written into the run's scope again
\* and stored.
C21_Witness ==
    /\ last.op = "add_reflection_with_dedup"
    /\ last.ret = Stored(3)
    /\ last.scope = RunScope
    /\ last.prev.op = "consolidate"
    /\ last.prev.scope = RunScope
    /\ InScope(last.before, RunScope) = {}
    /\ \E r \in last.before :
           /\ r.scope # RunScope
           /\ r.utility = InitialUtility
           /\ Sim(last.text, r.text) >= last.arg

---------------------------------------------------------------------------
(* C22: what a search returns *)

Searched == last.op = "retrieve_reflections" /\ last.ret # Raised

\* The in-scope records at least as near to the query as r, r apart.
AtLeastAsNear(r) ==
    {q \in InScope(last.before, last.scope) \ {r} :
        QuerySim(q.text) >= QuerySim(r.text)}

\* C22: a search returns records of the scope filter only, each with
\* similarity at least similarity_threshold, at most top_k of them, none
\* twice, in order of descending similarity; and every record of the scope it
\* leaves out is either below the threshold or not among the top_k nearest.
C22_Search ==
    Searched =>
        LET found == last.found
            S == InScope(last.before, last.scope)
        IN  /\ Len(found) <= last.arg
            /\ \A i \in 1..Len(found) :
                   /\ found[i] \in S
                   /\ QuerySim(found[i].text) >= last.arg2
            /\ \A i, j \in 1..Len(found) :
                   /\ i < j => found[i] # found[j]
                   /\ i < j => QuerySim(found[i].text) >= QuerySim(found[j].text)
            /\ \A r \in S \ Range(found) :
                   \/ QuerySim(r.text) < last.arg2
                   \/ Cardinality(AtLeastAsNear(r)) >= last.arg

\* A search that returned top_k records of different similarity, the last one
\* exactly at the threshold, left out a record of the scope that passes the
\* threshold, and another scope held a record that passes it too.
C22_Witness ==
    /\ Searched
    /\ Len(last.found) = last.arg
    /\ last.arg > 1
    /\ QuerySim(last.found[1].text) > QuerySim(last.found[last.arg].text)
    /\ QuerySim(last.found[last.arg].text) = last.arg2
    /\ \E r \in InScope(last.before, last.scope) \ Range(last.found) :
           QuerySim(r.text) >= last.arg2
    /\ \E r \in last.before :
           r.scope # last.scope /\ QuerySim(r.text) >= last.arg2

---------------------------------------------------------------------------
(* C23: persisted values stay in range *)

\* reflector's maintenance pass got past its decay phase.
MaintenancePassed == AfterReflect /\ hist.maint \notin {"none", "raised"}

\* C23: the score in the WorkflowState is always within [0.0, 1.0], and so is
\* the score reflect puts into the metadata of the lesson it writes; no stored
\* record has a utility_score above 2.0; and after a maintenance pass over a
\* scope every record of that scope has a utility_score of at least the prune
\* floor.
C23_ValuesInRange ==
    /\ ws.score \in 0..100
    /\ AfterReflect => hist.metaScore \in 0..100
    /\ \A r \in store : r.utility <= UtilityCap
    /\ MaintenancePassed =>
           \A r \in InScope(store, RunScope) : r.utility >= PruneThreshold
    /\ last.op = "decay_and_prune" =>
           \A r \in InScope(store, last.scope) : r.utility >= last.arg2

\* The evaluator's reply gave a score below 0.0, reflect stored its lesson with
\* the clamped score, and the maintenance pass left a record exactly at the
\* prune floor.
C23_Witness ==
    /\ MaintenancePassed
    /\ hist.write = "stored"
    /\ hist.metaScore = 0
    /\ \E r \in InScope(store, RunScope) : r.utility = PruneThreshold

---------------------------------------------------------------------------
(* C24: singleton construction *)

Returned(t) == callers[t].pc = "done"

\* C24: however the first calls of several threads interleave, at most one
\* store is ever constructed, a caller to which get_instance returns gets that
\* store (never None), so all callers get the same one, and the lock is held
\* by no thread that is not inside the with block.
C24_Singleton ==
    /\ made <= 1
    /\ instance <=> made = 1
    /\ \A t \in DOMAIN callers : Returned(t) => callers[t].got = 1
    /\ \A t, u \in DOMAIN callers :
           Returned(t) /\ Returned(u) => callers[t].got = callers[u].got
    /\ \A t \in DOMAIN callers :
           lock = t <=> callers[t].pc \in {"locked", "construct", "release", "unwind"}

\* All threads passed the first test before any store existed, one of them
\* constructed it, and every thread has returned.
C24_Witness ==
    /\ callers # <<>>
    /\ faults = 0
    /\ \A t \in DOMAIN callers : Returned(t) /\ callers[t].waited

---------------------------------------------------------------------------
(* C25: two maintenance passes on one scope *)

Consolidated(p) ==
    /\ procs[p].op = "run_maintenance"
    /\ procs[p].pc = "idle"
    /\ procs[p].ret = "consolidated"

\* Both passes consolidated, from the same set of records.
BothConsolidatedTheSame ==
    /\ procs # <<>>
    /\ Consolidated(1) /\ Consolidated(2)
    /\ procs[1].m.all_ids = procs[2].m.all_ids

\* C25: when two maintenance passes on one scope run side by side and both
\* consolidations read the same over-threshold set of records, each writes its
\* principles and neither removes the other's: afterwards the scope holds the
\* principles of both passes, which can be more than 3 consolidated records.
C25_BothConsolidate ==
    BothConsolidatedTheSame =>
        LET S == InScope(store, RunScope)
            mine(p) == Range(procs[p].m.new_ids)
        IN  /\ mine(1) \cup mine(2) \subseteq Ids(S)
            /\ mine(1) \cap mine(2) = {}
            /\ Cardinality({r \in S : r.consolidated})
                   = Len(procs[1].m.principles) + Len(procs[2].m.principles)

\* Both passes read the same two lessons and consolidated them: the scope ends
\* with more than 3 consolidated records, and nothing else.
C25_Witness ==
    /\ BothConsolidatedTheSame
    /\ procs[1].m.all_ids = {1, 2}
    /\ Cardinality({r \in InScope(store, RunScope) : r.consolidated}) > MaxPrinciples
    /\ \A r \in InScope(store, RunScope) : r.consolidated

---------------------------------------------------------------------------
(* C26: a decay pass against a dedup write *)

\* Process p's dedup write was skipped on a record that the decay pass of
\* process q had chosen to delete, and that pass has made its delete call.
SkippedOnPruned(p, q) ==
    /\ procs[p].op = "add_reflection_with_dedup"
    /\ procs[p].pc = "idle"
    /\ procs[p].ret = "skipped"
    /\ procs[q].op = "run_maintenance"
    /\ procs[q].pc \in {"consolidate", "consolidating", "idle"}
    /\ procs[p].near \in procs[q].ids_to_delete

\* C26: when a dedup write is skipped because of its nearest neighbour and a
\* decay pass on the same scope deletes that neighbour, whichever of the two
\* came first, the scope ends holding neither the neighbour nor the lesson of
\* the skipped write.
C26_DecayAgainstWrite ==
    \A p, q \in DOMAIN procs :
        SkippedOnPruned(p, q) =>
            /\ procs[p].near \notin Ids(store)
            /\ \A r \in InScope(store, RunScope) : r.text # procs[p].text

\* The dedup check ran between the decay pass's read and its delete: the write
\* was skipped on a record that was still there, the pass then deleted it, and
\* the scope is empty.
C26_Witness ==
    /\ procs # <<>>
    /\ \E p, q \in Procs :
           /\ SkippedOnPruned(p, q)
           /\ q \in procs[p].racing
           /\ procs[q].pc = "idle"
    /\ InScope(store, RunScope) = {}

---------------------------------------------------------------------------
(* C27: runs are independent *)

\* The WorkflowState and the pending next state of run r.
RunView(r) ==
    IF r = active THEN [ws |-> ws, next |-> next]
    ELSE [ws |-> saved[checkpoint_key(r)].ws, next |-> saved[checkpoint_key(r)].next]

RestartStep == status # "unknown" /\ status' = "unknown"

C27_Step ==
    ~RestartStep =>
        \A r \in DOMAIN saved :
            (r # active \/ active' # active) => RunView(r)' = RunView(r)

\* C27: a step, an override or a resume of one run leaves the WorkflowState and
\* the pending next state of every other run as they were, and so does the
\* driver's turning from one run to another.
C27_RunsIndependent == [][C27_Step]_vars

\* Run 2 is paused before finalize while run 1, whose critique was overridden,
\* has reflected and stored its lesson, which run 2 had not retrieved.
C27_Witness ==
    /\ active = 1
    /\ AfterReflect
    /\ hist.lessonOverridden
    /\ hist.write = "stored"
    /\ saved[2].status = "paused"
    /\ saved[2].next = "finalize"
    /\ saved[2].ws.critique \in EvalCritiques
    /\ saved[2].ws.retrieved_memories = <<>>

---------------------------------------------------------------------------
(* C28: a paused run can be resumed later *)

\* What the checkpointer gives for run r: whether it is paused, its pending
\* next state and its WorkflowState.
RunCheckpoint(r) ==
    IF r = active THEN [status |-> status, next |-> next, ws |-> ws]
    ELSE LET c == saved[checkpoint_key(r)]
         IN  [status |-> c.status, next |-> c.next, ws |-> c.ws]

RunPaused(r) == RunCheckpoint(r).status = "paused"

\* The driver resumes or overrides the run it is driving.
OwnStep == active' = active /\ ~RestartStep

C28_Step ==
    \A r \in DOMAIN saved :
        RunPaused(r) /\ ~(r = active /\ OwnStep) =>
            RunCheckpoint(r)' = RunCheckpoint(r)

\* C28: a paused run stays resumable under its run identifier: until it is
\* itself resumed or overridden, whatever else happens, a restart of the
\* process included, its checkpoint stays paused before the same next state
\* with every WorkflowState field as it was.
C28_Resumable == [][C28_Step]_vars

\* The same, restarts of the process left aside.
C28_ResumableInProcess == [][~RestartStep => C28_Step]_vars

---------------------------------------------------------------------------
(* C29: what an external actor may change *)

OverrideStep == hist'.event = "override" /\ hist' # hist

C29_Step ==
    OverrideStep =>
        /\ status = "paused"
        /\ next = "reflector"
        /\ ws' = [ws EXCEPT !.critique = ws'.critique]

\* C29: an override is accepted only while the run is paused before reflect,
\* and it changes no WorkflowState field but critique.
C29_OverrideRestricted == [][C29_Step]_vars

\* The part that holds: an override is accepted only while the run is paused,
\* before reflect or before finalize, and changes critique only.
C29_WhilePaused ==
    [][OverrideStep =>
           /\ status = "paused"
           /\ next \in interrupt_before
           /\ ws' = [ws EXCEPT !.critique = ws'.critique]]_vars

---------------------------------------------------------------------------
(* C30: how retrieve_memory merges *)

\* The texts the search gave retrieve_memory, nearest first (none when the
\* construction of the store or the search raised), after the session's
\* reflections.
MergeInput ==
    LET found == IF hist.retrieval \in {"construct", "search"} THEN <<>>
                 ELSE retrieve_reflections(store, RunScope, TopK,
                                           SimilarityThreshold)
    IN  ws.reflections \o [i \in 1..Len(found) |-> found[i].text]

FirstAt(s, x) == CHOOSE k \in 1..Len(s) : s[k] = x /\ \A l \in 1..(k - 1) : s[l] # x

\* C30: after retrieve_memory, retrieved_memories holds every text of the
\* session reflections and of the retrieved lessons, each exactly once, in the
\* order of their first occurrence with the session reflections first; two
\* texts are merged only when they are equal.
C30_Merge ==
    AfterRetrieve =>
        LET res == ws.retrieved_memories
        IN  /\ Range(res) = Range(MergeInput)
            /\ Len(res) = Cardinality(Range(MergeInput))
            /\ \A i, j \in 1..Len(res) :
                   i < j => FirstAt(MergeInput, res[i]) < FirstAt(MergeInput, res[j])
            /\ \A i \in 1..Len(res) :
                   i <= Cardinality(Range(ws.reflections))
                       <=> res[i] \in Range(ws.reflections)

\* The search returned the lesson of an earlier run and a lesson that is also
\* among the session reflections: the latter is kept once, at its place among
\* the session reflections, and the former, a different text of similarity
\* 0.80 to it, is kept after it.
C30_Witness ==
    /\ AfterRetrieve
    /\ Len(ws.retrieved_memories) < Len(MergeInput)
    /\ ws.reflections # <<>>
    /\ \E i, j \in 1..Len(ws.retrieved_memories) :
           /\ i < j
           /\ ws.retrieved_memories[i] \in Range(ws.reflections)
           /\ ws.retrieved_memories[j] \notin Range(ws.reflections)
           /\ Sim(ws.retrieved_memories[i], ws.retrieved_memories[j]) >= 80

---------------------------------------------------------------------------
(* C31: forgetting *)

\* The first lesson as it was first stored: never boosted, never written
\* again while it is there.
FirstLesson == {r \in store : r.id = 1}

PassesDone == m.pc = "idle" /\ ops >= 1

\* C31: a record that is never boosted loses decay_rate with every maintenance
\* pass over its scope and is gone after finitely many; with the defaults and
\* no consolidation it is still there after each of its first 14 passes (with
\* utility_score exactly at the floor after the 14th) and is deleted by the
\* 15th.
C31_Forgetting ==
    /\ \A r \in FirstLesson : r.utility = InitialUtility - DecayRate * ops
    /\ PassesDone /\ last.arg = 0 => (FirstLesson # {} <=> ops <= 14)
    /\ PassesDone /\ ops >= 15 => FirstLesson = {}

\* The 15th pass has just deleted the first lesson, which the 14th had left at
\* the floor, and no consolidation ran; younger lessons are still there.
C31_Witness ==
    /\ PassesDone
    /\ ops = 15
    /\ last.arg = 0 /\ last.arg2 = 0
    /\ FirstLesson = {}
    /\ \E r \in m.pre : r.id = 1 /\ r.utility = PruneThreshold
    /\ store # {}

---------------------------------------------------------------------------
(* C39: how large a scope grows *)

ScopeSize == Cardinality(InScope(store, RunScope))

---------------------------------------------------------------------------
(* C32: external calls per state; C33: what boost rewards *)

\* C32: a node makes at most one external call, model invocations and store
\* operations together.
C32_OneCallPerState ==
    hist.event = "node" => hist.calls[1] + hist.calls[2] <= 1

\* The nodes other than retrieve_memory and reflector make at most one call,
\* and a run is paused only before a node of interrupt_before, after the node
\* before it has returned.
C32_OtherStates ==
    /\ hist.event = "node" /\ hist.lastNode \notin {"retrieve_memory", "reflector"}
           => hist.calls[1] + hist.calls[2] <= 1
    /\ status = "paused" =>
           /\ next \in interrupt_before
           /\ hist.event \in {"pause", "override"}
           /\ hist.pending = next

\* C33: once grade_relevance has given its verdicts, every lesson whose
\* record was boosted in this round is among the lessons judged YES.
C33_BoostOnlyRelevant ==
    hist.event = "node" /\ hist.lastNode = "grade_relevance"
        /\ hist.grading.kind = "list"
        /\ Len(hist.grading.verdicts) = Len(ws.retrieved_memories)
        => hist.boosted \subseteq Range(ws.graded_memories)

\* boost_utility is called by retrieve_memory only: a record's utility_score
\* grows in no other step, and there it grows for every record retrieved.
C33_BoostAtRetrieval ==
    [][(\E r \in store : \E r2 \in store' :
            r2.id = r.id /\ r2.utility > r.utility)
        => /\ hist'.lastNode = "retrieve_memory" /\ hist'.event = "node"
           /\ hist'.boosted # {}
           /\ \A r2 \in store' :
                  r2.text \in hist'.boosted =>
                      \E r \in store : r.id = r2.id /\ r2.utility > r.utility]_vars

---------------------------------------------------------------------------
(* C34: the order of the states *)

StateOrder ==
    { <<"START", "retrieve_memory">>,
      <<"retrieve_memory", "grade_relevance">>,
      <<"grade_relevance", "generate">>,
      <<"generate", "evaluator">>,
      <<"evaluator", "reflector">>,
      <<"evaluator", "finalize">>,
      <<"reflector", "retrieve_memory">>,
      <<"finalize", "END">> }

\* When the pending node changes, the pending one has executed, it was
\* entered from the node executed before it, and the run ends by finalize only.
C34_Step ==
    /\ next' # next =>
           /\ hist'.event = "node" /\ hist'.lastNode = next
           /\ <<hist.lastNode, next>> \in StateOrder
           /\ <<next, next'>> \in StateOrder
    /\ status' = "done" /\ status # "done" => next = "finalize" /\ next' = "END"

\* C34: a run starts in retrieve_memory, and the pending state changes only
\* along retrieve_memory -> grade_relevance -> generate -> evaluate,
\* evaluate -> reflect or finalize, reflect -> retrieve_memory and
\* finalize -> end; so generate runs after grade_relevance, which runs after
\* retrieve_memory, evaluate after generate, and nothing but finalize ends a
\* run.
C34_StateOrder ==
    /\ next = "retrieve_memory" /\ status = "running"
    /\ [][C34_Step]_vars

\* A run that went through reflect once, and so twice through retrieve_memory,
\* grade_relevance, generate and evaluate, has ended by finalize.
C34_Witness ==
    /\ status = "done"
    /\ next = "END"
    /\ hist.lastNode = "finalize"
    /\ ws.iteration = 1
    /\ Len(ws.revision_history) = 2

---------------------------------------------------------------------------
(* C35: the lengths of reflections and revision_history *)

AtPauseOrEnd == status \in {"paused", "done"}

\* C35: at every pause and at the end there is one reflection for every
\* round counted and one draft more than that, whatever became of the store
\* writes of the reflect steps; so a run makes at most max_iterations + 1
\* generate steps.
C35_Lengths ==
    /\ AtPauseOrEnd =>
           /\ Len(ws.reflections) = ws.iteration
           /\ Len(ws.revision_history) = ws.iteration + 1
    /\ Generated <= ws.max_iterations + 1
    /\ Len(ws.revision_history) <= ws.max_iterations + 1

\* A pause after two reflect steps that started on an empty scope and of
\* whose two writes at most one was stored.
C35_Witness ==
    /\ status = "paused"
    /\ ws.iteration = 2
    /\ Len(ws.reflections) = 2
    /\ Len(ws.revision_history) = 3
    /\ nextId <= 2

---------------------------------------------------------------------------
(* C36: what an override before reflect leaves alone *)

C36_Step ==
    /\ OverrideStep /\ next = "reflector" =>
           /\ ws'.score = ws.score
           /\ ws'.iteration = ws.iteration
           /\ ws'.current_draft = ws.current_draft
           /\ ws'.revision_history = ws.revision_history
           /\ ws'.reflections = ws.reflections
           /\ ws' = [ws EXCEPT !.critique = hist'.humanCritique]
           /\ next' = "reflector"
           /\ status' = "paused"
    /\ hist.overridden /\ status = "paused" /\ next = "reflector"
           /\ status' = "running" =>
           next' = "reflector" /\ resuming'
    /\ hist.overridden /\ resuming /\ next = "reflector" /\ next' # next =>
           hist'.lastNode = "reflector"

\* C36: overwriting critique as the evaluator while the run is paused before
\* reflect changes critique and no other field of WorkflowState, and leaves
\* reflect pending: the resume that follows runs reflect.
C36_OverrideFrame == [][C36_Step]_vars

\* A second-round run whose critique was overwritten at the pause before
\* reflect has been resumed and is about to run reflect on the new critique.
C36_Witness ==
    /\ hist.event = "resume"
    /\ hist.overridden
    /\ resuming
    /\ next = "reflector"
    /\ ws.iteration = 1
    /\ ws.critique = hist.humanCritique
    /\ ws.critique # hist.evalCritique

---------------------------------------------------------------------------
(* C37: the maintenance pass of a reflect step *)

StoreCallsReturned ==
    hist'.write \in {"stored", "skipped"} /\ hist'.maint # "raised"

C37_Step ==
    ReflectStep /\ StoreCallsReturned =>
        /\ hist'.maint \in {"not_needed", "consolidated", "no_principles",
                            "rolled_back"}
        /\ hist'.write = "skipped" => nextId' = nextId \/ hist'.maint = "consolidated"
        /\ hist'.maint # "consolidated" =>
              /\ \A r \in InScope(store, RunScope) :
                    IF r.utility - DecayRate < PruneThreshold
                       THEN \A r2 \in store' : r2.id # r.id
                       ELSE \E r2 \in store' :
                               /\ r2.id = r.id
                               /\ r2.utility = r.utility - DecayRate
              /\ hist'.write = "stored" =>
                    \E r2 \in store' :
                        /\ r2.id = nextId
                        /\ r2.text = hist'.lesson
                        /\ r2.utility = InitialUtility - DecayRate
                        /\ r2.utility # InitialUtility

\* C37: a reflect step whose store calls return has run one maintenance pass
\* after the dedup write, whether the lesson was stored or skipped: every
\* record the scope held has lost decay_rate once (or was pruned), and a
\* lesson the step stored has utility_score 1.0 - decay_rate when the step
\* returns, unless consolidation replaced it.
C37_MaintenanceInReflect == [][C37_Step]_vars

\* The second reflect step has stored its lesson, now at 0.95, and its pass
\* has brought the first step's lesson to 0.90 or, boosted meanwhile, 1.00.
C37_Witness ==
    /\ AfterReflect
    /\ hist.write = "stored"
    /\ hist.maint = "not_needed"
    /\ \E r \in store :
          r.text = hist.lesson /\ r.utility = InitialUtility - DecayRate
    /\ \E r \in store :
          /\ r.text # hist.lesson
          /\ r.text # PriorLesson
          /\ r.utility \in {InitialUtility - 2 * DecayRate,
                            InitialUtility - 2 * DecayRate + BoostAmount}

---------------------------------------------------------------------------
(* C38: two dedup writes of one lesson side by side *)

WroteAndStored(p) ==
    /\ procs[p].op = "add_reflection_with_dedup"
    /\ procs[p].pc = "idle"
    /\ procs[p].ret = "stored"

SameText(t) == {r \in InScope(store, RunScope) : r.text = t}

\* C38: the check and the write of add_reflection_with_dedup are two calls;
\* when two runs write the same lesson to one scope and both have passed the
\* check before either has written, both store it and the scope holds two
\* records of that text; a write that checks after the other has written is
\* skipped.
C38_DoubleWrite ==
    \A p \in Procs : \A q \in Procs \ {p} :
        /\ WroteAndStored(p) /\ WroteAndStored(q)
               /\ procs[p].text = procs[q].text
               => Cardinality(SameText(procs[p].text)) = 2
        /\ WroteAndStored(p) /\ procs[q].op = "add_reflection_with_dedup"
               /\ procs[q].pc = "idle" /\ procs[q].ret = "skipped"
               /\ procs[q].text = procs[p].text
               => Cardinality(SameText(procs[p].text)) = 1

\* Both runs have stored the lesson: two records of it, with different ids.
C38_Witness ==
    /\ WroteAndStored(1) /\ WroteAndStored(2)
    /\ procs[1].text = procs[2].text
    /\ \E r1 \in store, r2 \in store :
          /\ r1.id # r2.id
          /\ r1.text = procs[1].text /\ r2.text = procs[1].text
          /\ r1.scope = RunScope /\ r2.scope = RunScope

---------------------------------------------------------------------------
(* C40: the supervisor graph ends *)

SupFinished == sup.at = "END" /\ sup.next = "FINISH"

SupervisorStep == sup.at = "Supervisor" /\ sup' # sup

C40_Step ==
    /\ SupervisorStep /\ sup.scratchpad.revision_count < RevisionLimit =>
          /\ sup.last_actor = "" => sup'.next = "Researcher" /\ sup'.asked = sup.asked
          /\ sup.last_actor = "Researcher" =>
                sup'.next = "Writer" /\ sup'.asked = sup.asked
          /\ sup.last_actor = "Writer" =>
                sup'.next = "Editor" /\ sup'.asked = sup.asked
          /\ sup.last_actor = "Editor" => sup'.asked = sup.asked + 1
    /\ SupervisorStep /\ sup.scratchpad.revision_count >= RevisionLimit =>
          sup'.next = "FINISH" /\ sup'.at = "END" /\ sup'.asked = sup.asked
    /\ sup'.reviews = sup.reviews + 1 =>
          sup'.scratchpad.revision_count = sup.scratchpad.revision_count + 1
    /\ sup'.reviews = sup.reviews =>
          sup'.scratchpad.revision_count = sup.scratchpad.revision_count

\* C40: every run of the supervisor graph reaches FINISH, after at most 3
\* Editor reviews whatever the model answers after a review: the routes from
\* the initial state, from Researcher and from Writer are fixed and made
\* without the model, every Editor review adds one to revision_count, and at
\* revision_count >= 3 the Supervisor returns FINISH without asking the model.
C40_Finishes ==
    /\ <>SupFinished
    /\ [](/\ sup.reviews <= RevisionLimit
          /\ sup.scratchpad.revision_count = sup.reviews
          /\ sup.asked <= sup.reviews
          /\ sup.asked < RevisionLimit)
    /\ [][C40_Step]_vars

\* The model sent the run back to the Editor after each review; after the
\* third review the Supervisor has finished the run without asking it.
C40_Witness ==
    /\ SupFinished
    /\ sup.reviews = RevisionLimit
    /\ sup.asked = RevisionLimit - 1
    /\ sup.last_actor = "Editor"

====
